---------------------------- MODULE Spec2Model ----------------------------
(***************************************************************************)
(* AntlerBot: the dispatcher (src/core/scheduler.py), the conversation     *)
(* state and LLM graph (src/core/agent.py) and the scheduled-task store    *)
(* (src/core/scheduled_tasks.py) as one state machine.                     *)
(*                                                                         *)
(* The program runs on one asyncio event loop: code between two awaits is  *)
(* one atomic step.  The dispatcher mutex (scheduler._lock) is only ever   *)
(* held over code without a suspension point, so each of its critical      *)
(* sections is one action.  The agent lock (agent._lock) is held across    *)
(* the whole graph run and is modelled explicitly (holders).               *)
(***************************************************************************)
EXTENDS Integers, Sequences, FiniteSets, TLC

(***************************************************************************)
(* Bounds of the model.                                                    *)
(***************************************************************************)
MaxEnqueue == 3        \* Enqueue calls from the transport per behaviour
MaxSegs == 1           \* segments one LLM answer is split into
MaxSidecars == 1       \* messages with media per behaviour
MaxMedia == 2          \* media tasks of one message
MaxMediaEnqueue == 2   \* Enqueue calls from the transport under SpecMedia
MaxTasks == 2          \* create_task calls per behaviour
MaxFires == 2          \* _on_trigger calls per behaviour
MaxDay == 2            \* the last day the clock reaches
MaxAgentEnqueue == 1   \* Enqueue calls from the transport under SpecAgent
MaxAgentFires == 1     \* _on_trigger calls under SpecAgent

(***************************************************************************)
(* Program constants.                                                      *)
(***************************************************************************)
PRIORITY_SCHEDULED == 0
PRIORITY_USER_MESSAGE == 1
PRIORITY_AUTO_CONVERSATION == 2
context_limit_tokens == 8000
timeout_summarize_seconds == 1800
timeout_clear_seconds == 3600

Priorities == {PRIORITY_SCHEDULED, PRIORITY_USER_MESSAGE, PRIORITY_AUTO_CONVERSATION}
Sources == {"group_1", "private_2"}
Null == "null"

\* Optional values: None is the empty sequence, a value v is <<v>>.
None == <<>>
Some(v) == <<v>>

VARIABLES
    \* agent.py
    history,              \* _history: the conversation, a sequence of messages
    holders,              \* the tasks inside `async with _lock` of _invoke
    run,                  \* the graph run of the lock holder
    current_token_usage,  \* _current_token_usage
    \* scheduler.py
    queue,                \* _queue: the items of the priority queue
    counter,              \* _counter
    processing,           \* _processing
    current_source,       \* _current_source
    workers,              \* the _process_loop tasks created so far
    apscheduler,          \* _apscheduler is set (init_timeout was called)
    jobs,                 \* the pending jobs of _apscheduler, by id
    \* observation of the collaborators
    enq,                  \* every item put in the queue, in Enqueue order
    llmLog,               \* every message list handed to the graph
    sent,                 \* every segment handed to a reply_fn
    lastReturn,           \* _history as it stood when the last _invoke returned
    clearedSince,         \* clear_history ran since the last _invoke returned
    \* the media sidecars of scheduler.py
    sidecars,             \* the _resolve_media_and_enqueue tasks created so far
    \* scheduled_tasks.py
    tasks,                \* the task list of tasks.json
    taskJobs,             \* the job ids of _scheduler
    nextTaskId,           \* the next fresh task_id (uuid4)
    today,                \* the date of datetime.now(), as a day number
    triggers,             \* the _on_trigger coroutines started so far
    \* the other callers of the agent
    callers,              \* position of the timer, command and register
                          \* coroutines, and the locals of register
    \* the functions checked on their own
    save,                 \* _save_tasks: its position, its argument and the
                          \* temp file tasks.json.tmp
    boot,                 \* the clock at startup and the time each stored
                          \* task was created at
    stream,               \* the stream loop of _invoke: the chunks to come,
                          \* the buffer and the segments yielded
    \* the clock
    now,                  \* datetime.now(), in seconds since the start
    run_date,             \* the run date of each pending job of _apscheduler
    \* commands.py
    graph,                \* agent._graph is set (the compiled graph)
    command,              \* the last call of handle_command and its outcome
    perms                 \* permissions.yaml and what load_permissions made of it

agentVars == <<history, holders, run, current_token_usage>>
dispVars == <<queue, counter, processing, current_source, workers, apscheduler, jobs>>
obsVars == <<enq, llmLog, sent, lastReturn, clearedSince>>
mediaVars == <<sidecars>>
taskVars == <<tasks, taskJobs, nextTaskId, today, triggers>>
callVars == <<callers>>
unitVars == <<save, boot, stream>>
timeVars == <<now, run_date>>
handleVars == <<graph, command, perms>>
envVars == <<mediaVars, taskVars, callVars, unitVars, timeVars, handleVars>>
vars == <<agentVars, dispVars, obsVars, envVars>>

(***************************************************************************)
(* Messages of the conversation (langchain BaseMessage).                   *)
(***************************************************************************)
Msg(type, content, blocks, tool_calls, input_tokens, total_tokens) ==
    [type |-> type, content |-> content, blocks |-> blocks,
     tool_calls |-> tool_calls, input_tokens |-> input_tokens,
     total_tokens |-> total_tokens]
HumanMessage(content, blocks) == Msg("human", content, blocks, FALSE, 0, 0)
SystemMessage(content) == Msg("system", content, <<>>, FALSE, 0, 0)
ToolMessage(content) == Msg("tool", content, <<>>, FALSE, 0, 0)
AIMessage(content, tool_calls, input_tokens, total_tokens) ==
    Msg("ai", content, <<>>, tool_calls, input_tokens, total_tokens)

IdleRun == [node |-> "idle", reason |-> Null, messages |-> <<>>, segs |-> 0,
            tools |-> 0, by |-> Null, usage_before |-> 0, summary |-> None,
            yielded |-> 0]


(***************************************************************************)
(* agent.py: the graph and _invoke.                                        *)
(***************************************************************************)
Last(s) == s[Len(s)]
Front(s) == SubSeq(s, 1, Len(s) - 1)

RECURSIVE SumTokens(_)
SumTokens(msgs) ==
    IF msgs = <<>> THEN 0
    ELSE (Len(Head(msgs).content) + 3) \div 4 + 3 + SumTokens(Tail(msgs))

\* langchain's count_tokens_approximately: about a token per four characters
\* plus three per message.
count_tokens_approximately(msgs) == SumTokens(msgs)

route_by_reason(reason) ==
    CASE reason = "user_message" -> "llm"
      [] reason = "scheduled_task" -> "llm"
      [] reason = "complex_reschedule" -> "utility"
      [] reason = "session_timeout" -> "summarize_all"

\* Mutant of route_after_llm: summarize already at the limit.
RouteAtLimit(messages) ==
    LET last == Last(messages)
        tokens == IF last.input_tokens # 0 THEN last.input_tokens
                  ELSE count_tokens_approximately(messages)
    IN  IF last.tool_calls THEN "tools"
        ELSE IF tokens >= context_limit_tokens THEN "summarize"
        ELSE "finalize"

\* Lines 220-228.  input_tokens 0 stands for no usage_metadata or a reported
\* 0: both make `.get("input_tokens") or ...` take the approximation.
route_after_llm(messages) ==
    LET last == Last(messages)
        tokens == IF last.input_tokens # 0 THEN last.input_tokens
                  ELSE count_tokens_approximately(messages)
    IN  IF last.tool_calls THEN "tools"
        ELSE IF tokens > context_limit_tokens THEN "summarize"
        ELSE "finalize"

\* _invoke, lines 272-277: the message list the graph starts from.
\* Mutant of the initial state of the graph: the history is left out.
InitialFresh(reason, content, blocks, messages) ==
    IF reason = "session_timeout" THEN history
    ELSE IF reason = "complex_reschedule" THEN messages
    ELSE <<HumanMessage(content, blocks)>>

\* Lines 272-277: the messages the graph run starts from.
Initial(reason, content, blocks, messages) ==
    IF reason = "session_timeout" THEN history
    ELSE IF reason = "complex_reschedule" THEN messages
    ELSE history \o <<HumanMessage(content, blocks)>>

\* The sidecars that still await a media task.
PendingSidecars == {s \in DOMAIN sidecars : sidecars[s].pc = "gather"}

\* Mutant of the lock: acquire always succeeds.
LockAlwaysFree == TRUE

\* asyncio.Lock: acquire succeeds only while nobody is inside.
LockFree == holders = {}

\* _invoke up to the start of the graph run: `async with _lock`, initial,
\* astream_events.  c is the calling task, items the queue items (by
\* arrival sequence) whose texts make up content.
AgentAcquire(c, reason, content, blocks, messages, items) ==
    /\ LockFree
    /\ holders' = holders \cup {c}
    /\ graph' = TRUE
    /\ run' = [node |-> route_by_reason(reason), reason |-> reason,
               messages |-> Initial(reason, content, blocks, messages),
               segs |-> 0, tools |-> 0, by |-> c,
               usage_before |-> current_token_usage, summary |-> None,
               yielded |-> 0]
    /\ llmLog' = Append(llmLog,
                        [by |-> c, reason |-> reason, content |-> content,
                         blocks |-> blocks, items |-> items,
                         messages |-> Initial(reason, content, blocks, messages),
                         prev |-> lastReturn, cleared |-> clearedSince,
                         pending |-> PendingSidecars])
    /\ UNCHANGED <<history, current_token_usage, lastReturn, clearedSince>>

\* llm_node followed by the conditional edge route_after_llm.  The answer is
\* the LLM's: whether it calls a tool, the input tokens it reports (0: none
\* reported) and the number k of segments its streamed text is split into.
LlmNode(tool_calls, input_tokens, k) ==
    /\ run.node = "llm"
    /\ LET response == AIMessage("a" \o ToString(Len(llmLog)), tool_calls, input_tokens,
                                 IF input_tokens = 0 THEN 0 ELSE input_tokens + 50)
           messages == run.messages \o <<response>>
       IN  run' = [run EXCEPT !.messages = messages,
                              !.node = route_after_llm(messages),
                              !.segs = @ + k]
    /\ UNCHANGED <<history, holders, current_token_usage>>

\* Mutant of the tools node: the result of the call is not added.
ToolsNodeNoResult ==
    /\ run.node = "tools"
    /\ run' = [run EXCEPT !.node = "llm", !.tools = @ + 1]
    /\ UNCHANGED <<history, holders, current_token_usage>>

\* ToolNode(_tools): one tool message per call, then back to llm.
ToolsNode ==
    /\ run.node = "tools"
    /\ run' = [run EXCEPT !.messages = @ \o <<ToolMessage("t" \o ToString(Len(llmLog)))>>,
                          !.node = "llm", !.tools = @ + 1]
    /\ UNCHANGED <<history, holders, current_token_usage>>

finalize_node ==
    /\ run.node = "finalize"
    /\ history' = run.messages
    /\ run' = [run EXCEPT !.node = "end"]
    /\ UNCHANGED <<holders, current_token_usage>>

RECURSIVE StripToolTail(_)
StripToolTail(msgs) ==
    IF msgs # <<>> /\ Last(msgs).type = "tool" THEN StripToolTail(Front(msgs))
    ELSE msgs

_safe_for_summary(msgs) ==
    LET m == StripToolTail(msgs)
    IN  IF m # <<>> /\ Last(m).type = "ai" /\ Last(m).tool_calls THEN Front(m) ELSE m

\* The index of the last human or system message, 0 when there is none
\* (None in the code).
LastHuman(msgs) ==
    LET S == {i \in 1..Len(msgs) : msgs[i].type \in {"human", "system"}}
    IN  IF S = {} THEN 0 ELSE CHOOSE i \in S : \A j \in S : j <= i

SummaryMessage(n) == SystemMessage("<context-summary>s" \o ToString(n) \o "</context-summary>")

\* The run keeps, for the record, the token usage it started with and the
\* usage of its summary call.
\* summarize_node.  The code's indices are 0-based: `last_human > 0` is
\* LastHuman > 1 here.  in_tok and out_tok are the summary call's usage
\* (both 0: no usage_metadata).
\* Lines 170-176: the two lists summarize_node cuts the messages into.
LastTurn(msgs) ==
    IF LastHuman(msgs) > 1 THEN SubSeq(msgs, LastHuman(msgs), Len(msgs)) ELSE <<>>

ToSummarize(msgs) ==
    IF LastHuman(msgs) > 1 THEN _safe_for_summary(SubSeq(msgs, 1, LastHuman(msgs) - 1))
    ELSE _safe_for_summary(msgs)

summarize_node(in_tok, out_tok) ==
    /\ run.node = "summarize"
    /\ LET msgs == run.messages
           last_turn == LastTurn(msgs)
           to_summarize == ToSummarize(msgs)
       IN  IF to_summarize = <<>>
           THEN UNCHANGED <<history, current_token_usage>>
           ELSE /\ current_token_usage' =
                       IF in_tok = 0 /\ out_tok = 0 THEN current_token_usage
                       ELSE out_tok + current_token_usage - in_tok
                /\ history' = <<SummaryMessage(Len(llmLog))>> \o last_turn
    /\ run' = [run EXCEPT !.node = "end",
                          !.summary = IF ToSummarize(run.messages) = <<>> THEN None
                                      ELSE Some([input_tokens |-> in_tok,
                                                 output_tokens |-> out_tok])]
    /\ UNCHANGED holders

summarize_all_node(in_tok, out_tok) ==
    /\ run.node = "summarize_all"
    /\ current_token_usage' =
           IF in_tok = 0 /\ out_tok = 0 THEN current_token_usage
           ELSE out_tok + current_token_usage - in_tok
    /\ history' = <<SummaryMessage(Len(llmLog))>>
    /\ run' = [run EXCEPT !.node = "end",
                          !.summary = Some([input_tokens |-> in_tok,
                                            output_tokens |-> out_tok]),
                          !.messages = SubSeq(@, Len(_safe_for_summary(@)) + 1, Len(@))
                                       \o <<SummaryMessage(Len(llmLog))>>]
    /\ UNCHANGED holders

\* Mutant of utility_node: the run's messages are stored as the history.
UtilityNodeStores ==
    /\ run.node = "utility"
    /\ history' = run.messages \o <<AIMessage("json", FALSE, 0, 0)>>
    /\ run' = [run EXCEPT !.messages = @ \o <<AIMessage("json", FALSE, 0, 0)>>,
                          !.node = "end"]
    /\ UNCHANGED <<holders, current_token_usage>>

\* Lines 210-215: the structured call; the answer goes to the run's
\* messages only.
utility_node ==
    /\ run.node = "utility"
    /\ run' = [run EXCEPT !.messages = @ \o <<AIMessage("json", FALSE, 0, 0)>>,
                          !.node = "end"]
    /\ UNCHANGED <<history, holders, current_token_usage>>

\* The last AIMessage of _history, as next(... reversed(_history) ...).
LastAI(msgs) ==
    LET S == {i \in 1..Len(msgs) : msgs[i].type = "ai"}
    IN  IF S = {} THEN 0 ELSE CHOOSE i \in S : \A j \in S : j <= i

\* The end of _invoke, lines 332-337, and the exit of `async with _lock`.
AgentFinish(c) ==
    /\ c \in holders
    /\ run.by = c
    /\ run.node = "end"
    /\ run.segs = 0
    /\ current_token_usage' =
           IF run.reason \in {"user_message", "scheduled_task"} /\ LastAI(history) # 0
           THEN IF history[LastAI(history)].total_tokens # 0
                THEN history[LastAI(history)].total_tokens
                ELSE count_tokens_approximately(history)
           ELSE current_token_usage
    /\ holders' = holders \ {c}
    /\ run' = IdleRun
    /\ lastReturn' = history
    /\ clearedSince' = FALSE
    /\ UNCHANGED history

\* Mutant of the raise: the run's message list is stored on the way out.
AgentRaiseStores(c) ==
    /\ c \in holders
    /\ run.by = c
    /\ run.node \in {"llm", "summarize", "summarize_all", "utility"}
    /\ holders' = holders \ {c}
    /\ run' = IdleRun
    /\ lastReturn' = history
    /\ clearedSince' = FALSE
    /\ history' = run.messages
    /\ UNCHANGED current_token_usage

\* An LLM call of the running node raises: the exception leaves _invoke
\* through `async with _lock`, which releases the lock.
AgentRaise(c) ==
    /\ c \in holders
    /\ run.by = c
    /\ run.node \in {"llm", "summarize", "summarize_all", "utility"}
    /\ holders' = holders \ {c}
    /\ run' = IdleRun
    /\ lastReturn' = history
    /\ clearedSince' = FALSE
    /\ UNCHANGED <<history, current_token_usage>>

\* One segment leaves the generator (`yield seg`).
Yield(c) ==
    /\ c \in holders
    /\ run.by = c
    /\ run.segs > 0
    /\ run' = [run EXCEPT !.segs = @ - 1, !.yielded = @ + 1]
    /\ UNCHANGED <<history, holders, current_token_usage>>

clear_history ==
    /\ history' = <<>>
    /\ clearedSince' = TRUE

(***************************************************************************)
(* scheduler.py: the dispatcher.                                           *)
(***************************************************************************)
\* Mutants of the queue order: arrival order alone, and newest first within
\* a priority.
ItemLessFifo(a, b) == a.counter < b.counter
ItemLessLifo(a, b) ==
    \/ a.priority < b.priority
    \/ a.priority = b.priority /\ a.counter > b.counter

\* The order of asyncio.PriorityQueue on the item tuples
\* (priority, _counter, ...): _counter is unique, so nothing after it is
\* ever compared.
ItemLess(a, b) ==
    \/ a.priority < b.priority
    \/ a.priority = b.priority /\ a.counter < b.counter

\* Mutant of the drain: one item per pass.
DrainOne(q) ==
    IF q = {} THEN <<>>
    ELSE <<CHOOSE a \in q : \A b \in q \ {a} : a.priority < b.priority
                                  \/ (a.priority = b.priority /\ a.counter < b.counter)>>

\* `while not _queue.empty(): items.append(_queue.get_nowait())`
RECURSIVE DrainAll(_)
DrainAll(q) ==
    IF q = {} THEN <<>>
    ELSE LET m == CHOOSE a \in q : \A b \in q \ {a} : ItemLess(a, b)
         IN  <<m>> \o DrainAll(q \ {m})

\* The source keys of items in first-seen order (`order` in _batch).
RECURSIVE FirstSeen(_, _)
FirstSeen(items, seen) ==
    IF items = <<>> THEN <<>>
    ELSE IF Head(items).source_key \in seen THEN FirstSeen(Tail(items), seen)
    ELSE <<Head(items).source_key>>
             \o FirstSeen(Tail(items), seen \cup {Head(items).source_key})

GroupItems(items, k) == SelectSeq(items, LAMBDA it : it.source_key = k)

_batch(items) ==
    LET order == FirstSeen(items, {})
    IN  [i \in 1..Len(order) |->
            LET g == GroupItems(items, order[i])
            IN  [source_key |-> order[i],
                 msgs |-> [j \in 1..Len(g) |-> g[j].msg],
                 reply_fns |-> [j \in 1..Len(g) |-> g[j].reply_fn],
                 parsed_msgs |-> [j \in 1..Len(g) |-> g[j].blocks],
                 counters |-> [j \in 1..Len(g) |-> g[j].counter]]]

\* "\n".join(msgs)
RECURSIVE JoinNL(_)
JoinNL(msgs) ==
    IF msgs = <<>> THEN ""
    ELSE IF Len(msgs) = 1 THEN msgs[1]
    ELSE msgs[1] \o "\n" \o JoinNL(Tail(msgs))

\* all_blocks: the content_blocks of every parsed message of the group.
RECURSIVE AllBlocks(_)
AllBlocks(parsed_msgs) ==
    IF parsed_msgs = <<>> THEN <<>>
    ELSE Head(parsed_msgs) \o AllBlocks(Tail(parsed_msgs))

\* holds_lock: the worker is inside one of its `async with _lock` blocks of
\* scheduler.py (the dispatcher's mutex).
NewWorker == [pc |-> "start", batches |-> <<>>, gi |-> 0, holds_lock |-> FALSE]

\* scheduler._lock is free: `async with _lock` is entered without waiting.
\* The callers of _enqueue_ready hold it only within one step: the unbounded
\* queue's put never suspends.
SchedulerLockFree == \A w \in DOMAIN workers : ~workers[w].holds_lock

\* Mutant of _enqueue_ready: a worker is started whether or not one is
\* processing.
EnqueueReadySpawns(priority, source_key, msg, reply_fn, blocks) ==
    LET item == [priority |-> priority, counter |-> counter + 1,
                 source_key |-> source_key, msg |-> msg,
                 reply_fn |-> reply_fn, blocks |-> blocks]
    IN  /\ SchedulerLockFree
        /\ counter' = counter + 1
        /\ queue' = queue \cup {item}
        /\ processing' = TRUE
        /\ workers' = Append(workers, NewWorker)
        /\ enq' = Append(enq, item)

\* _enqueue_ready: under the mutex, count, put, and start a worker when
\* none is processing.  The queue is unbounded, so put never waits.
_enqueue_ready(priority, source_key, msg, reply_fn, blocks) ==
    LET item == [priority |-> priority, counter |-> counter + 1,
                 source_key |-> source_key, msg |-> msg,
                 reply_fn |-> reply_fn, blocks |-> blocks]
        should_start == ~processing
    IN  /\ SchedulerLockFree
        /\ counter' = counter + 1
        /\ queue' = queue \cup {item}
        /\ processing' = TRUE
        /\ workers' = IF should_start THEN Append(workers, NewWorker) ELSE workers
        /\ enq' = Append(enq, item)

\* enqueue for a message without media tasks (parsed_message is None or has
\* no media_tasks).
Enqueue(priority, source_key) ==
    /\ counter < MaxEnqueue
    /\ _enqueue_ready(priority, source_key, "m" \o ToString(counter + 1),
                      counter + 1, <<>>)
    /\ UNCHANGED <<agentVars, current_source, apscheduler, jobs, llmLog, sent,
                   lastReturn, clearedSince>>
    /\ UNCHANGED envVars

Range(f) == {f[i] : i \in DOMAIN f}

\* Mutant of the drain: the mutex is kept while the groups are invoked.
DrainKeepsLock(w) ==
    /\ workers[w].pc = "start"
    /\ SchedulerLockFree
    /\ IF queue = {}
       THEN /\ processing' = FALSE
            /\ current_source' = Null
            /\ workers' = [workers EXCEPT ![w].pc = "done"]
            /\ UNCHANGED queue
       ELSE LET items == DrainAll(queue)
            IN  /\ queue' = queue \ Range(items)
                /\ workers' = [workers EXCEPT ![w] =
                                  [pc |-> "invoke", batches |-> _batch(items),
                                   gi |-> 1, holds_lock |-> TRUE]]
                /\ UNCHANGED <<processing, current_source>>
    /\ UNCHANGED <<agentVars, counter, apscheduler, jobs, obsVars>>
    /\ UNCHANGED envVars

\* Mutant of the drain: a worker that finds the queue empty returns
\* without resetting _processing.
DrainExitKeepsFlag(w) ==
    /\ workers[w].pc = "start"
    /\ SchedulerLockFree
    /\ IF queue = {}
       THEN /\ workers' = [workers EXCEPT ![w].pc = "done"]
            /\ UNCHANGED <<queue, processing, current_source>>
       ELSE LET items == DrainAll(queue)
            IN  /\ queue' = queue \ Range(items)
                /\ workers' = [workers EXCEPT ![w] =
                                  [pc |-> "invoke", batches |-> _batch(items),
                                   gi |-> 1, holds_lock |-> FALSE]]
                /\ UNCHANGED <<processing, current_source>>
    /\ UNCHANGED <<agentVars, counter, apscheduler, jobs, obsVars>>
    /\ UNCHANGED envVars

\* _process_loop, lines 122-130: the drain under the mutex, which is released
\* before the batch is grouped and invoked.
Drain(w) ==
    /\ workers[w].pc = "start"
    /\ SchedulerLockFree
    /\ IF queue = {}
       THEN /\ processing' = FALSE
            /\ current_source' = Null
            /\ workers' = [workers EXCEPT ![w].pc = "done"]
            /\ UNCHANGED queue
       ELSE LET items == DrainAll(queue)
            IN  /\ queue' = queue \ Range(items)
                /\ workers' = [workers EXCEPT ![w] =
                                  [pc |-> "invoke", batches |-> _batch(items),
                                   gi |-> 1, holds_lock |-> FALSE]]
                /\ UNCHANGED <<processing, current_source>>
    /\ UNCHANGED <<agentVars, counter, apscheduler, jobs, obsVars>>
    /\ UNCHANGED envVars

\* Lines 131-144: the next group of the batch, up to the start of its graph
\* run (the worker waits here while another task holds the agent lock).
BeginGroup(w) ==
    /\ workers[w].pc = "invoke"
    /\ LET g == workers[w].batches[workers[w].gi]
       IN  /\ current_source' = g.source_key
           /\ AgentAcquire("worker", "user_message", JoinNL(g.msgs),
                           AllBlocks(g.parsed_msgs), <<>>, g.counters)
    /\ workers' = [workers EXCEPT ![w].pc = "stream"]
    /\ UNCHANGED <<queue, counter, processing, apscheduler, jobs, enq, sent>>
    /\ UNCHANGED <<mediaVars, taskVars, callVars, unitVars, timeVars, command, perms>>

\* Mutant of the reply: the segment goes to the reply_fn of the group's
\* first item.
ReplyToFirst(w) ==
    /\ workers[w].pc = "stream"
    /\ Yield("worker")
    /\ LET g == workers[w].batches[workers[w].gi]
       IN  sent' = Append(sent, [reply_fn |-> Head(g.reply_fns),
                                 source_key |-> g.source_key,
                                 invocation |-> Len(llmLog),
                                 seg |-> run.yielded + 1,
                                 pending |-> PendingSidecars])
    /\ UNCHANGED <<dispVars, enq, llmLog, lastReturn, clearedSince>>
    /\ UNCHANGED envVars

\* Line 145: `await reply_fns[-1](seg)` for a segment the generator yields.
\* seg is the position of the segment among those of its invocation.
Reply(w) ==
    /\ workers[w].pc = "stream"
    /\ Yield("worker")
    /\ LET g == workers[w].batches[workers[w].gi]
       IN  sent' = Append(sent, [reply_fn |-> Last(g.reply_fns),
                                 source_key |-> g.source_key,
                                 invocation |-> Len(llmLog),
                                 seg |-> run.yielded + 1,
                                 pending |-> PendingSidecars])
    /\ UNCHANGED <<dispVars, enq, llmLog, lastReturn, clearedSince>>
    /\ UNCHANGED envVars

\* The generator is exhausted: the worker goes on to the next group, or to
\* the timers when this was the last one.
EndGroup(w) ==
    /\ workers[w].pc = "stream"
    /\ AgentFinish("worker")
    /\ workers' = [workers EXCEPT
                      ![w].gi = @ + 1,
                      ![w].pc = IF workers[w].gi < Len(workers[w].batches)
                                THEN "invoke" ELSE "post"]
    /\ UNCHANGED <<queue, counter, processing, current_source, apscheduler, jobs,
                   enq, llmLog, sent>>
    /\ UNCHANGED envVars

has_history == history # <<>>

\* Mutant of add_job: a pending job with the id keeps its run date.
AddJobKeepsExisting(dates, id, date) ==
    IF dates[id] # None THEN dates ELSE [dates EXCEPT ![id] = Some(date)]

\* _apscheduler.add_job(..., DateTrigger(run_date=date), id=id,
\* replace_existing=True)
add_job(dates, id, date) == [dates EXCEPT ![id] = Some(date)]

\* _apscheduler.remove_job(id) under contextlib.suppress(Exception)
remove_job(dates, id) == [dates EXCEPT ![id] = None]

\* Mutant of the timers after the batch: session_clear is not removed.
PostKeepsClear(w) ==
    /\ workers[w].pc = "post"
    /\ jobs' = IF apscheduler /\ has_history
               THEN jobs \cup {"session_summarize"}
               ELSE jobs
    /\ run_date' = IF apscheduler /\ has_history
                   THEN add_job(run_date, "session_summarize",
                                now + timeout_summarize_seconds)
                   ELSE run_date
    /\ workers' = [workers EXCEPT ![w].pc = "start"]
    /\ callers' = [callers EXCEPT !.batch_done = TRUE,
                                  !.batch_kept = @ \/ has_history]
    /\ UNCHANGED <<agentVars, queue, counter, processing, current_source,
                   apscheduler, obsVars, now>>
    /\ UNCHANGED <<mediaVars, taskVars, unitVars, handleVars>>

\* Lines 146-155: the inactivity timers after the drained batch, then back
\* to the top of the loop.
Post(w) ==
    /\ workers[w].pc = "post"
    /\ jobs' = IF apscheduler /\ has_history
               THEN (jobs \cup {"session_summarize"}) \ {"session_clear"}
               ELSE jobs
    /\ run_date' = IF apscheduler /\ has_history
                   THEN remove_job(add_job(run_date, "session_summarize",
                                           now + timeout_summarize_seconds),
                                   "session_clear")
                   ELSE run_date
    /\ workers' = [workers EXCEPT ![w].pc = "start"]
    /\ callers' = [callers EXCEPT !.batch_done = TRUE,
                                  !.batch_kept = @ \/ has_history]
    /\ UNCHANGED <<agentVars, queue, counter, processing, current_source,
                   apscheduler, obsVars, now>>
    /\ UNCHANGED <<mediaVars, taskVars, unitVars, handleVars>>

\* Mutant of the handler: the exception leaves the worker task.
HandlerEscapes(w) ==
    /\ workers' = [workers EXCEPT ![w].pc = "escaped"]
    /\ UNCHANGED <<processing, current_source>>

\* Mutant of the handler: the worker ends without resetting _processing.
HandlerKeepsFlag(w) ==
    /\ SchedulerLockFree
    /\ current_source' = Null
    /\ workers' = [workers EXCEPT ![w].pc = "failed"]
    /\ UNCHANGED processing

\* Lines 156-160: `except Exception`.
Handler(w) ==
    /\ SchedulerLockFree
    /\ processing' = FALSE
    /\ current_source' = Null
    /\ workers' = [workers EXCEPT ![w].pc = "failed"]

\* The LLM raises during the group's graph run.
InvokeRaises(w) ==
    /\ workers[w].pc = "stream"
    /\ AgentRaise("worker")
    /\ Handler(w)
    /\ UNCHANGED <<queue, counter, apscheduler, jobs, enq, llmLog, sent>>
    /\ UNCHANGED envVars

\* The reply_fn raises on a yielded segment.  The generator stays suspended
\* at its yield, inside `async with _lock`, until it is closed.
ReplyRaises(w) ==
    /\ workers[w].pc = "stream"
    /\ Yield("worker")
    /\ Handler(w)
    /\ UNCHANGED <<queue, counter, apscheduler, jobs, obsVars>>
    /\ UNCHANGED envVars

\* load_settings or add_job raises at the timers after the batch.
TimerRaises(w) ==
    /\ workers[w].pc = "post"
    /\ apscheduler /\ has_history
    /\ Handler(w)
    /\ UNCHANGED <<agentVars, queue, counter, apscheduler, jobs, obsVars>>
    /\ UNCHANGED envVars

\* The event loop closes the abandoned generator (aclose on finalization):
\* GeneratorExit at the yield leaves `async with _lock`.
GeneratorClose ==
    /\ "worker" \in holders
    /\ \A w \in DOMAIN workers : workers[w].pc # "stream"
    /\ holders' = holders \ {"worker"}
    /\ run' = IdleRun
    /\ lastReturn' = history
    /\ clearedSince' = FALSE
    /\ UNCHANGED <<history, current_token_usage, dispVars, enq, llmLog, sent>>
    /\ UNCHANGED envVars

\* The graph run of the lock holder advances by one node.  The LLM of this
\* environment calls no tool, reports a usage under the limit and streams a
\* text of at least one segment.
GraphStepPlain ==
    /\ \/ \E k \in 1..MaxSegs : LlmNode(FALSE, 100, k)
       \/ finalize_node
    /\ UNCHANGED <<dispVars, obsVars>>
    /\ UNCHANGED envVars

InitAgent ==
    /\ graph = FALSE
    /\ history = <<>>
    /\ holders = {}
    /\ run = IdleRun
    /\ current_token_usage = 0
    /\ llmLog = <<>>
    /\ lastReturn = <<>>
    /\ clearedSince = FALSE

\* The ids of the inactivity jobs; a job that is not pending has no run date.
JobIds == {"session_summarize", "session_clear"}
NoJobs == [id \in JobIds |-> None]

InitDispatcher ==
    /\ now = 0
    /\ run_date = NoJobs
    /\ queue = {}
    /\ counter = 0
    /\ processing = FALSE
    /\ current_source = Null
    /\ workers = <<>>
    /\ jobs = {}
    /\ enq = <<>>
    /\ sent = <<>>

\* The module state after import: _apscheduler is None until init_timeout.
InitMedia == sidecars = <<>>

\* No tasks.json, no job, nothing fired.
InitTasks ==
    /\ tasks = <<>>
    /\ taskJobs = {}
    /\ nextTaskId = 1
    /\ today = 1
    /\ triggers = <<>>

\* No command has been received.
NoCommand == [n |-> 0, user_id |-> "", text |-> <<>>, result |-> "none",
              reply |-> Null, handler |-> Null]

\* permissions.yaml as yaml.safe_load returns it: the sections in the order
\* of the file, each a role name with its list of ids.  Here one admin and
\* one developer; anybody else is a user.
PermissionsFile ==
    <<[role_name |-> "admin", ids |-> <<"111">>],
      [role_name |-> "developer", ids |-> <<"222">>]>>

\* No timer job runs, no command, register has not been called.
\* batch_done and batch_kept record, for the inactivity timers, whether the
\* worker has come to the end of a drained batch since the job
\* session_summarize last fired, and whether one did so with a history.
InitCallers ==
    /\ command = NoCommand
    /\ perms = [file |-> PermissionsFile, loaded |-> None]
    /\ callers = [timer |-> "idle", cmd |-> "idle", recovery |-> "idle",
                  loaded |-> <<>>, missed |-> {},
                  batch_done |-> FALSE, batch_kept |-> FALSE]

\* No save is under way and there is no temp file; the process was not
\* started over a store; no answer is being streamed.
IdleSave == [pc |-> "idle", arg |-> <<>>, prev |-> <<<<>>>>,
             files |-> [store |-> <<>>, tmp |-> <<>>]]
IdleBoot == [now |-> 0, created |-> <<>>, stored |-> <<>>]
IdleStream == [pc |-> "idle", whole |-> <<>>, text |-> <<>>, buffer |-> <<>>,
               in_no_split |-> FALSE, out |-> <<>>]

InitUnits ==
    /\ save = IdleSave
    /\ boot = IdleBoot
    /\ stream = IdleStream

Init ==
    /\ InitAgent
    /\ InitDispatcher
    /\ apscheduler = FALSE
    /\ InitMedia
    /\ InitTasks
    /\ InitCallers
    /\ InitUnits

(***************************************************************************)
(* SpecDisp: the dispatcher under transport messages without media, at any *)
(* priority and from two sources, with an LLM that may fail.               *)
(***************************************************************************)
NextDisp ==
    \/ \E p \in Priorities, s \in Sources : Enqueue(p, s)
    \/ \E w \in DOMAIN workers : Drain(w)
    \/ \E w \in DOMAIN workers : BeginGroup(w)
    \/ \E w \in DOMAIN workers : Reply(w)
    \/ \E w \in DOMAIN workers : EndGroup(w)
    \/ \E w \in DOMAIN workers : Post(w)
    \/ \E w \in DOMAIN workers : InvokeRaises(w)
    \/ GraphStepPlain

SpecDisp == Init /\ [][NextDisp]_vars


(***************************************************************************)
(* Claims about the dispatcher, checked under SpecDisp.                    *)
(***************************************************************************)
\* The workers that hold a drained batch.
ActiveWorkers == {w \in DOMAIN workers : workers[w].pc \in {"invoke", "stream", "post"}}

\* The arrival sequences of the items of source S, in the order in which
\* their texts reached the LLM through the worker.
RECURSIVE DeliveredOf(_, _)
DeliveredOf(log, S) ==
    IF log = <<>> THEN <<>>
    ELSE (IF Head(log).by = "worker" /\ Head(log).items # <<>>
             /\ enq[Head(log).items[1]].source_key = S
          THEN Head(log).items ELSE <<>>) \o DeliveredOf(Tail(log), S)

\* The invocations made for group g of a batch: a queue item is in one
\* batch only, so its arrival sequence identifies them.
EntriesFor(g) ==
    {n \in DOMAIN llmLog : llmLog[n].by = "worker" /\ llmLog[n].items = g.counters}

\* The position in llmLog of the invocation for group g, 0 when there is none.
Pos(g) == IF EntriesFor(g) = {} THEN 0 ELSE CHOOSE n \in EntriesFor(g) : TRUE

\* If group b of the batch has been invoked, group a was invoked before it.
InvokedBefore(a, b) == Pos(b) # 0 => (Pos(a) # 0 /\ Pos(a) < Pos(b))

HasScheduled(g) ==
    \E c \in Range(g.counters) : enq[c].priority = PRIORITY_SCHEDULED
HasUserOrAuto(g) ==
    \E c \in Range(g.counters) :
        enq[c].priority \in {PRIORITY_USER_MESSAGE, PRIORITY_AUTO_CONVERSATION}

\* C3 as stated: for every source, at any mix of priorities, the texts of
\* its items reach the LLM in the order in which they were enqueued.
C3_OrderAtAnyPriorities ==
    \A S \in Sources :
        LET d == DeliveredOf(llmLog, S)
        IN  \A i, j \in 1..Len(d) : i < j => d[i] < d[j]

\* C3, amended: for every source, an item's text reaches the LLM before the
\* text of an item of that source enqueued earlier only if its priority
\* value is strictly smaller; items of one source enqueued at the same
\* priority reach the LLM in enqueue order, within one combined prompt and
\* across invocations, and none reaches it twice.
C3_PerSourceOrder ==
    \A S \in Sources :
        LET d == DeliveredOf(llmLog, S)
        IN  \A i, j \in 1..Len(d) :
                i < j => \/ d[i] < d[j]
                         \/ enq[d[i]].priority < enq[d[j]].priority

\* Witness of C3: a source with an invocation followed by a later one that
\* combines two of its items.
C3_Witness ==
    \E m, n \in DOMAIN llmLog :
        /\ m < n
        /\ llmLog[m].items # <<>>
        /\ Len(llmLog[n].items) >= 2
        /\ enq[llmLog[m].items[1]].source_key = enq[llmLog[n].items[1]].source_key
        /\ enq[llmLog[n].items[1]].priority = enq[llmLog[n].items[2]].priority

BatchCounters(w) ==
    UNION {Range(workers[w].batches[i].counters) : i \in DOMAIN workers[w].batches}

C4_Coalesced ==
    /\ \A w \in ActiveWorkers :
        LET b == workers[w].batches
        IN  /\ \A i, j \in DOMAIN b : i # j => b[i].source_key # b[j].source_key
            /\ \A i \in DOMAIN b :
                /\ \A c \in Range(b[i].counters) : enq[c].source_key = b[i].source_key
                /\ Cardinality(EntriesFor(b[i])) =
                       IF i < workers[w].gi \/ (i = workers[w].gi /\ workers[w].pc = "stream")
                       THEN 1 ELSE 0
                /\ \A n \in EntriesFor(b[i]) :
                       llmLog[n].content =
                           JoinNL([k \in 1..Len(b[i].counters) |-> enq[b[i].counters[k]].msg])
    /\ \A it \in queue :
        /\ \A n \in DOMAIN llmLog : it.counter \notin Range(llmLog[n].items)
        /\ \A w \in ActiveWorkers : it.counter \notin BatchCounters(w)

C4_DrainTakesAll ==
    \A w \in DOMAIN workers :
        (workers[w].pc = "start" /\ workers'[w].pc = "invoke")
            => /\ queue' = {}
               /\ BatchCounters(w)' = {it.counter : it \in queue}

C4_BatchFrozen ==
    \A w \in DOMAIN workers :
        workers[w].pc \in {"invoke", "stream"} => workers'[w].batches = workers[w].batches

\* C4: a drain removes every item that is in the queue; the drained items
\* of one source are one group, invoked once (when the batch is processed
\* to its end, every group exactly once) with their texts joined by a
\* newline; the batch in flight never changes, and an item still in the
\* queue is in no batch and in no invocation.
C4_Batching ==
    /\ []C4_Coalesced
    /\ [][C4_DrainTakesAll]_vars
    /\ [][C4_BatchFrozen]_vars

\* Witness of C4: a batch of two groups processed to its end, one of the
\* groups combining two items.
C4_Witness ==
    \E w \in DOMAIN workers :
        /\ workers[w].pc = "post"
        /\ Len(workers[w].batches) = 2
        /\ \E i \in DOMAIN workers[w].batches : Len(workers[w].batches[i].counters) = 2

\* C5 as stated: a group with a SCHEDULED item is invoked before any other
\* group of the drain that has a USER or AUTO item.
C5_ScheduledGroupFirst ==
    \A w \in ActiveWorkers :
        LET b == workers[w].batches
        IN  \A i, j \in DOMAIN b :
                (i # j /\ HasScheduled(b[i]) /\ HasUserOrAuto(b[j]))
                    => InvokedBefore(b[i], b[j])

\* C5, amended: a group with a SCHEDULED item is invoked before every group
\* of the drain that has no SCHEDULED item, whatever the arrival order; and
\* of two groups whose first items have equal priority, the one whose first
\* item arrived earlier is invoked first.
C5_PriorityOrder ==
    \A w \in ActiveWorkers :
        LET b == workers[w].batches
        IN  \A i, j \in DOMAIN b :
                /\ (HasScheduled(b[i]) /\ ~HasScheduled(b[j]))
                       => InvokedBefore(b[i], b[j])
                /\ (/\ enq[b[i].counters[1]].priority = enq[b[j].counters[1]].priority
                    /\ b[i].counters[1] < b[j].counters[1])
                       => InvokedBefore(b[i], b[j])

\* Witness of C5: both groups invoked, the SCHEDULED item having arrived
\* after an item of the other group.
C5_Witness ==
    \E w \in ActiveWorkers :
        LET b == workers[w].batches
        IN  \E i, j \in DOMAIN b :
                /\ HasScheduled(b[i]) /\ ~HasScheduled(b[j])
                /\ Pos(b[i]) # 0 /\ Pos(b[j]) # 0
                /\ \E c \in Range(b[i].counters), d \in Range(b[j].counters) :
                       enq[c].priority = PRIORITY_SCHEDULED /\ d < c

(***************************************************************************)
(* scheduler.py: the media sidecar.                                        *)
(***************************************************************************)
\* The result of a media task: a string, a content block, None, or none yet.
StrResult(v) == [kind |-> "str", val |-> v]
DictResult(v) == [kind |-> "dict", val |-> v]
NoneResult == [kind |-> "none", val |-> ""]
Pending == [kind |-> "pending", val |-> ""]

\* The tags of message_parser.py and _resolve_one for an image.  The error
\* texts are the source's two Chinese words, "processing timed out" and
\* "processing failed", spelled in pinyin here.
LoadingTag == "<image status=\"loading\" />"
TimeoutTag == "<image error=\"chuli chaoshi\" />"
FailedTag == "<image error=\"chuli shibai\" />"

\* MediaTask of message_parser.py, with the state of its asyncio task.
MediaTask(passthrough) ==
    [passthrough |-> passthrough, result |-> Pending, cancelled |-> FALSE]

\* The payloads the parser hands over: one or two tasks, transcribed or
\* passed through.
MediaShapes ==
    {<<MediaTask(FALSE)>>, <<MediaTask(TRUE)>>, <<MediaTask(FALSE), MediaTask(TRUE)>>}

RECURSIVE LoadingTags(_)
LoadingTags(n) == IF n = 0 THEN "" ELSE LoadingTag \o LoadingTags(n - 1)

\* Mutant of enqueue: the item is held back until its media is resolved.
EnqueueMediaBlocking(priority, source_key, media_tasks) ==
    /\ counter < MaxEnqueue
    /\ Len(sidecars) < MaxSidecars
    /\ sidecars' = Append(sidecars,
                          [priority |-> priority, source_key |-> source_key,
                           reply_fn |-> counter + 1, orig |-> counter + 1,
                           media_tasks |-> media_tasks, pc |-> "gather",
                           follow |-> 0])
    /\ UNCHANGED <<agentVars, dispVars, obsVars, taskVars, callVars, unitVars, handleVars, timeVars>>

\* enqueue for a parsed message with media tasks: the item goes in the queue
\* with its placeholders, and the sidecar task is created.
EnqueueMedia(priority, source_key, media_tasks) ==
    /\ counter < MaxEnqueue
    /\ Len(sidecars) < MaxSidecars
    /\ _enqueue_ready(priority, source_key,
                      "m" \o ToString(counter + 1) \o LoadingTags(Len(media_tasks)),
                      counter + 1, <<>>)
    /\ sidecars' = Append(sidecars,
                          [priority |-> priority, source_key |-> source_key,
                           reply_fn |-> counter + 1, orig |-> counter + 1,
                           media_tasks |-> media_tasks, pc |-> "gather",
                           follow |-> 0])
    /\ UNCHANGED <<agentVars, current_source, apscheduler, jobs, llmLog, sent,
                   lastReturn, clearedSince, taskVars, callVars, unitVars, handleVars, timeVars>>

\* _resolve_one, line 191-192: the media task returns.  A transcription
\* returns a string, a passthrough a content block or None.
TaskReturns(s, i, r) ==
    /\ sidecars[s].pc = "gather"
    /\ sidecars[s].media_tasks[i].result = Pending
    /\ IF sidecars[s].media_tasks[i].passthrough
       THEN r \in {DictResult("block" \o ToString(s) \o ToString(i)), NoneResult}
       ELSE r = StrResult("<image>d" \o ToString(s) \o ToString(i) \o "</image>")
    /\ sidecars' = [sidecars EXCEPT ![s].media_tasks[i].result = r]
    /\ UNCHANGED <<agentVars, dispVars, obsVars, taskVars, callVars, unitVars, handleVars, timeVars>>

\* _resolve_one, lines 193-195: wait_for times out, the task is cancelled.
TaskTimeout(s, i) ==
    /\ sidecars[s].pc = "gather"
    /\ sidecars[s].media_tasks[i].result = Pending
    /\ sidecars' = [sidecars EXCEPT ![s].media_tasks[i].result = StrResult(TimeoutTag),
                                    ![s].media_tasks[i].cancelled = TRUE]
    /\ UNCHANGED <<agentVars, dispVars, obsVars, taskVars, callVars, unitVars, handleVars, timeVars>>

\* _resolve_one, lines 196-197: the media task raises.
TaskRaises(s, i) ==
    /\ sidecars[s].pc = "gather"
    /\ sidecars[s].media_tasks[i].result = Pending
    /\ sidecars' = [sidecars EXCEPT ![s].media_tasks[i].result = StrResult(FailedTag)]
    /\ UNCHANGED <<agentVars, dispVars, obsVars, taskVars, callVars, unitVars, handleVars, timeVars>>

\* Lines 78-85: the strings and the content blocks of the results.
RECURSIVE MediaParts(_)
MediaParts(mts) ==
    IF mts = <<>> THEN <<>>
    ELSE (IF ~(Head(mts).passthrough /\ Head(mts).result.kind = "dict")
             /\ Head(mts).result.kind = "str"
          THEN <<Head(mts).result.val>> ELSE <<>>) \o MediaParts(Tail(mts))

RECURSIVE MediaBlocks(_)
MediaBlocks(mts) ==
    IF mts = <<>> THEN <<>>
    ELSE (IF Head(mts).passthrough /\ Head(mts).result.kind = "dict"
          THEN <<Head(mts).result.val>> ELSE <<>>) \o MediaBlocks(Tail(mts))

\* _resolve_media_and_enqueue after the gather of _resolve_media_tasks.
_resolve_media_and_enqueue(s) ==
    /\ sidecars[s].pc = "gather"
    /\ \A i \in DOMAIN sidecars[s].media_tasks : sidecars[s].media_tasks[i].result # Pending
    /\ LET parts == MediaParts(sidecars[s].media_tasks)
           content_blocks == MediaBlocks(sidecars[s].media_tasks)
       IN  IF parts # <<>> \/ content_blocks # <<>>
           THEN /\ _enqueue_ready(sidecars[s].priority, sidecars[s].source_key,
                                  IF parts # <<>> THEN JoinNL(parts) ELSE "",
                                  sidecars[s].reply_fn, content_blocks)
                /\ sidecars' = [sidecars EXCEPT ![s].pc = "done", ![s].follow = counter + 1]
           ELSE /\ sidecars' = [sidecars EXCEPT ![s].pc = "done"]
                /\ UNCHANGED <<queue, counter, processing, workers, enq>>
    /\ UNCHANGED <<agentVars, current_source, apscheduler, jobs, llmLog, sent,
                   lastReturn, clearedSince, taskVars, callVars, unitVars, handleVars, timeVars>>

(***************************************************************************)
(* SpecMedia: the dispatcher under user messages with and without media,   *)
(* media tasks that return, raise or time out, and an LLM that answers.    *)
(***************************************************************************)
NextMedia ==
    \/ \E s \in Sources : counter < MaxMediaEnqueue /\ Enqueue(PRIORITY_USER_MESSAGE, s)
    \/ \E p \in {PRIORITY_USER_MESSAGE, PRIORITY_AUTO_CONVERSATION}, s \in Sources,
          mts \in MediaShapes :
              counter < MaxMediaEnqueue /\ EnqueueMedia(p, s, mts)
    \/ \E s \in DOMAIN sidecars, i \in 1..MaxMedia, r \in {"str", "dict", "none"} :
          /\ i \in DOMAIN sidecars[s].media_tasks
          /\ \E v \in {StrResult("<image>d" \o ToString(s) \o ToString(i) \o "</image>"),
                       DictResult("block" \o ToString(s) \o ToString(i)), NoneResult} :
                 v.kind = r /\ TaskReturns(s, i, v)
    \/ \E s \in DOMAIN sidecars, i \in 1..MaxMedia :
          i \in DOMAIN sidecars[s].media_tasks /\ TaskTimeout(s, i)
    \/ \E s \in DOMAIN sidecars, i \in 1..MaxMedia :
          i \in DOMAIN sidecars[s].media_tasks /\ TaskRaises(s, i)
    \/ \E s \in DOMAIN sidecars : _resolve_media_and_enqueue(s)
    \/ \E w \in DOMAIN workers : Drain(w)
    \/ \E w \in DOMAIN workers : BeginGroup(w)
    \/ \E w \in DOMAIN workers : Reply(w)
    \/ \E w \in DOMAIN workers : EndGroup(w)
    \/ \E w \in DOMAIN workers : Post(w)
    \/ GraphStepPlain

SpecMedia == Init /\ [][NextMedia]_vars

(***************************************************************************)
(* Claims about the media sidecar, checked under SpecMedia.                *)
(***************************************************************************)
\* The invocations whose prompt holds the item of arrival sequence c.
TurnsOf(c) == {n \in DOMAIN llmLog : c \in Range(llmLog[n].items)}

\* The place of the item of arrival sequence c in the prompt of invocation n.
PlaceIn(n, c) == CHOOSE k \in DOMAIN llmLog[n].items : llmLog[n].items[k] = c

\* C6, first part: the step of an Enqueue with media tasks ends with the
\* original item in the queue, its text carrying one loading placeholder
\* per task, and with every media task still pending.
C6_EnqueueDoesNotWait ==
    Len(sidecars') = Len(sidecars) + 1 =>
        LET s == sidecars'[Len(sidecars')]
        IN  /\ \E it \in queue' :
                /\ it.counter = s.orig
                /\ it.msg = "m" \o ToString(s.orig) \o LoadingTags(Len(s.media_tasks))
                /\ it.priority = s.priority /\ it.source_key = s.source_key
            /\ \A i \in DOMAIN s.media_tasks : s.media_tasks[i].result = Pending
            /\ s.pc = "gather"

\* C6 as stated, last part: the resolved content reaches the LLM only in a
\* turn other than, and later than, the turn of the original item.
C6_AlwaysSeparateTurn ==
    \A s \in DOMAIN sidecars :
        sidecars[s].follow # 0 =>
            \A n \in TurnsOf(sidecars[s].follow) :
                /\ sidecars[s].orig \notin Range(llmLog[n].items)
                /\ \A m \in TurnsOf(sidecars[s].orig) : m < n

\* The resolved content never reaches the LLM before the original item: it
\* comes in a later turn or, when both were drained together, in the same
\* prompt after the original text; and when the original item was
\* dispatched while its media was pending, only in a later, separate turn.
C6_FollowUpLater ==
    \A s \in DOMAIN sidecars :
        sidecars[s].follow # 0 =>
            \A n \in TurnsOf(sidecars[s].follow), m \in TurnsOf(sidecars[s].orig) :
                /\ m < n \/ (m = n /\ PlaceIn(n, sidecars[s].orig) < PlaceIn(n, sidecars[s].follow))
                /\ s \in llmLog[m].pending => m < n

\* C6, amended: an Enqueue with unresolved media tasks puts the original
\* item, with its loading placeholders, in the queue before it returns and
\* waits for no media task; the worker dispatches and answers that item
\* and later items whatever the state of the media task; the resolved
\* content never reaches the LLM before the original item, and reaches it
\* in a later, separate turn whenever the original item was dispatched
\* while the media was pending (an original item still in the queue when
\* the follow-up arrives is combined with it in one prompt).
C6_MediaNonBlocking ==
    /\ []C6_FollowUpLater
    /\ [][C6_EnqueueDoesNotWait]_vars

\* Witness of C6: the original item and a later item of another source were
\* answered while the media was pending, and the follow-up then reached the
\* LLM in a later turn.
C6_Witness ==
    \E s \in DOMAIN sidecars :
        /\ sidecars[s].follow # 0
        /\ \E m \in TurnsOf(sidecars[s].orig), n \in TurnsOf(sidecars[s].follow) :
            /\ m < n
            /\ \E k \in DOMAIN sent : sent[k].invocation = m /\ s \in sent[k].pending
        /\ \E k \in DOMAIN sent :
            /\ s \in sent[k].pending
            /\ sent[k].source_key # sidecars[s].source_key
            /\ sent[k].reply_fn > sidecars[s].orig

\* C7: once every media task of an Enqueue has returned, raised or timed
\* out and the sidecar has run to its end, exactly one follow-up Enqueue was
\* made, with the same source_key, priority and reply_fn, carrying one
\* string or one passthrough block for each media task; a task that timed
\* out was cancelled and contributed the timeout tag.
C7_FollowUp ==
    \A s \in DOMAIN sidecars :
        sidecars[s].pc = "done" =>
            LET sc == sidecars[s]
                F == {c \in DOMAIN enq : c # sc.orig /\ enq[c].reply_fn = sc.reply_fn}
            IN  /\ Cardinality(F) = 1
                /\ \A c \in F :
                    /\ enq[c].source_key = sc.source_key
                    /\ enq[c].priority = sc.priority
                    /\ Len(MediaParts(sc.media_tasks)) + Len(enq[c].blocks)
                           = Len(sc.media_tasks)
                /\ \A i \in DOMAIN sc.media_tasks :
                       sc.media_tasks[i].cancelled =>
                           sc.media_tasks[i].result = StrResult(TimeoutTag)


(***************************************************************************)
(* scheduled_tasks.py: the task store and the trigger workflow.            *)
(***************************************************************************)
\* `x and ...` on an Optional[int]: None and 0 are false.
Truthy(opt) == opt # None /\ opt[1] # 0

\* A task source {"type": ..., "id": ...} and the source key made of it.
\* Where the source may be None it is an optional value.
SourceDicts == {[type |-> "group", id |-> "1"], [type |-> "private", id |-> "2"]}
SourceKey(source) == source.type \o "_" \o source.id

\* Triggers: "cron:EXPR" or an ISO datetime.
CronTrigger == "cron:0 9 * * *"
DateTrigger == "2026-03-01T10:00:00"
IsCron(trigger) == trigger = CronTrigger

Names == {"a", "b"}
TaskTypes == {"once", "repeat", "complex_repeat"}

\* json.dump and json.load on the values of a task: None is null, an int
\* is written in decimal digits and read back from them, a str is a
\* string and the source dict an object of two strings. (task_id, last_run
\* and end_date are strings in the code; the model's numbers stand for
\* them and go through as strings.)
JNull == [j |-> "null"]
JNum(n) == [j |-> "number", text |-> ToString(n)]
JStr(x) == [j |-> "string", text |-> x]
JObj(d) == [j |-> "object", type |-> JStr(d.type), id |-> JStr(d.id)]
JOptNum(opt) == IF opt = None THEN JNull ELSE JNum(opt[1])
JOptStr(opt) == IF opt = None THEN JNull ELSE JStr(opt[1])
JOptObj(opt) == IF opt = None THEN JNull ELSE JObj(opt[1])

UnNum(tok) == CHOOSE n \in 0..99 : ToString(n) = tok.text
UnStr(tok) == tok.text
UnObj(tok) == [type |-> UnStr(tok.type), id |-> UnStr(tok.id)]
UnOptNum(tok) == IF tok.j = "null" THEN None ELSE Some(UnNum(tok))
UnOptStr(tok) == IF tok.j = "null" THEN None ELSE Some(UnStr(tok))
UnOptObj(tok) == IF tok.j = "null" THEN None ELSE Some(UnObj(tok))

\* Mutant of json_dump: a run budget of 0 is written as null.
json_dump_zero_null(ts) ==
    [i \in DOMAIN ts |->
        [task_id |-> JStr(ts[i].task_id), type |-> JStr(ts[i].type),
         name |-> JStr(ts[i].name), content |-> JStr(ts[i].content),
         trigger |-> JStr(ts[i].trigger), source |-> JOptObj(ts[i].source),
         run_count |-> JNum(ts[i].run_count),
         last_run |-> JOptStr(ts[i].last_run),
         max_runs |-> IF Truthy(ts[i].max_runs) THEN JNum(ts[i].max_runs[1]) ELSE JNull,
         end_date |-> JOptStr(ts[i].end_date),
         original_prompt |-> JOptStr(ts[i].original_prompt)]]

\* Line 40: json.dump(tasks, f, ensure_ascii=False, indent=2), the text of
\* the file as the list of its objects.
json_dump(ts) ==
    [i \in DOMAIN ts |->
        [task_id |-> JStr(ts[i].task_id), type |-> JStr(ts[i].type),
         name |-> JStr(ts[i].name), content |-> JStr(ts[i].content),
         trigger |-> JStr(ts[i].trigger), source |-> JOptObj(ts[i].source),
         run_count |-> JNum(ts[i].run_count),
         last_run |-> JOptStr(ts[i].last_run),
         max_runs |-> JOptNum(ts[i].max_runs),
         end_date |-> JOptStr(ts[i].end_date),
         original_prompt |-> JOptStr(ts[i].original_prompt)]]

\* Line 33: json.load(f).
json_load(text) ==
    [i \in DOMAIN text |->
        [task_id |-> UnStr(text[i].task_id), type |-> UnStr(text[i].type),
         name |-> UnStr(text[i].name), content |-> UnStr(text[i].content),
         trigger |-> UnStr(text[i].trigger), source |-> UnOptObj(text[i].source),
         run_count |-> UnNum(text[i].run_count),
         last_run |-> UnOptStr(text[i].last_run),
         max_runs |-> UnOptNum(text[i].max_runs),
         end_date |-> UnOptStr(text[i].end_date),
         original_prompt |-> UnOptStr(text[i].original_prompt)]]

\* The list _load_tasks returns once _save_tasks(ts) has replaced the file.
_save_tasks(ts) ==
    CHOOSE loaded \in {json_load(text) : text \in {json_dump(list) : list \in {ts}}} :
        TRUE

\* {t["name"] for t in tasks}
ExistingNames(ts) == {ts[i].name : i \in DOMAIN ts}

RECURSIVE UniqueFrom(_, _, _)
UniqueFrom(name, existing, i) ==
    IF (name \o "(" \o ToString(i) \o ")") \in existing
    THEN UniqueFrom(name, existing, i + 1)
    ELSE name \o "(" \o ToString(i) \o ")"

\* Mutant of the name search: the suffix is always (1).
UniqueNameFirstSuffix(name, ts) ==
    IF name \notin ExistingNames(ts) THEN name ELSE name \o "(1)"

_unique_name(name, ts) ==
    IF name \notin ExistingNames(ts) THEN name
    ELSE UniqueFrom(name, ExistingNames(ts), 1)

\* _scheduler.add_job(..., id=task_id, replace_existing=True)
_register_apscheduler_job(jobs_, task) ==
    {j \in jobs_ : j.id # task.task_id}
        \cup {[id |-> task.task_id, trigger |-> task.trigger]}

\* _scheduler.remove_job(task_id), a missing job being ignored.
RemoveJob(jobs_, task_id) == {j \in jobs_ : j.id # task_id}

\* message_handler._current_source is None unless message_handler's own
\* loop runs, which is not the dispatcher of scheduler.py.
mh_get_current_source == None

create_task(type, name, content, trigger, source, max_runs, end_date, original_prompt) ==
    /\ LET src == IF source = None THEN mh_get_current_source ELSE source
           unique == _unique_name(name, tasks)
           task == [task_id |-> nextTaskId, type |-> type, name |-> unique,
                    content |-> content, trigger |-> trigger,
                    source |-> src, run_count |-> 0, last_run |-> None,
                    max_runs |-> max_runs, end_date |-> end_date,
                    original_prompt |-> original_prompt]
       IN  /\ tasks' = _save_tasks(Append(tasks, task))
           /\ taskJobs' = _register_apscheduler_job(taskJobs, task)
    /\ nextTaskId' = nextTaskId + 1
    /\ UNCHANGED <<today, triggers>>
    /\ UNCHANGED <<agentVars, dispVars, obsVars, mediaVars, unitVars, handleVars, timeVars, callVars>>

\* The first task with the id, or with the name: an index, 0 when there is none.
FindBy(ts, field, v) ==
    LET I == {i \in DOMAIN ts : ts[i][field] = v}
    IN  IF I = {} THEN 0 ELSE CHOOSE i \in I : \A j \in I : i <= j

\* [t for t in tasks if t["task_id"] != task_id]
Without(ts, task_id) == SelectSeq(ts, LAMBDA t : t.task_id # task_id)

\* cancel_task by task_id (0: not given) or by name ("": not given).
cancel_task(task_id, name) ==
    /\ task_id # 0 \/ name # ""
    /\ LET byId == IF task_id # 0 THEN FindBy(tasks, "task_id", task_id) ELSE 0
           target == IF byId = 0 /\ name # "" THEN FindBy(tasks, "name", name) ELSE byId
       IN  IF target = 0 THEN UNCHANGED <<tasks, taskJobs>>
           ELSE /\ tasks' = _save_tasks(Without(tasks, tasks[target].task_id))
                /\ taskJobs' = RemoveJob(taskJobs, tasks[target].task_id)
    /\ UNCHANGED <<nextTaskId, today, triggers>>
    /\ UNCHANGED <<agentVars, dispVars, obsVars, mediaVars, unitVars, handleVars, timeVars, callVars>>

\* Mutant of the expiry test: the run budget is not looked at.
ExpiredNoBudget(task, day) ==
    \/ task.type = "once"
    \/ (task.end_date # None /\ day > task.end_date[1])

\* Lines 156-160: expired, for the task with its new run_count.
Expired(task, day) ==
    \/ task.type = "once"
    \/ (Truthy(task.max_runs) /\ task.run_count >= task.max_runs[1])
    \/ (task.end_date # None /\ day > task.end_date[1])

\* Lines 172-175: the header of the prompt ("-di N ci" spells the source's
\* Chinese "N-th time").
Header(task) ==
    IF task.type = "repeat"
    THEN "<scheduled_task>" \o task.name \o "-di" \o ToString(task.run_count)
             \o "ci</scheduled_task>"
    ELSE "<scheduled_task>" \o task.name \o "</scheduled_task>"

\* Mutant of _on_trigger: the run is not counted.
OnTriggerUncounted(j) ==
    /\ Len(triggers) < MaxFires
    /\ j \in taskJobs
    /\ LET k == FindBy(tasks, "task_id", j.id)
           fired == IF IsCron(j.trigger) THEN taskJobs ELSE taskJobs \ {j}
       IN  IF k = 0
           THEN /\ triggers' = Append(triggers, [task_id |-> j.id, pc |-> "done",
                                                 found |-> FALSE])
                /\ taskJobs' = fired
                /\ UNCHANGED tasks
           ELSE LET task == [tasks[k] EXCEPT !.last_run = Some(today)]
                    expired == Expired(task, today)
                IN  /\ tasks' = _save_tasks(IF expired THEN Without(tasks, j.id)
                                             ELSE [tasks EXCEPT ![k] = task])
                    /\ taskJobs' = IF expired THEN RemoveJob(fired, j.id) ELSE fired
                    /\ triggers' = Append(triggers,
                                          [task_id |-> j.id, pc |-> "invoke",
                                           found |-> TRUE, task |-> task,
                                           expired |-> expired,
                                           header |-> Header(task),
                                           result |-> None])
    /\ UNCHANGED <<nextTaskId, today>>
    /\ UNCHANGED <<agentVars, dispVars, obsVars, mediaVars, unitVars, handleVars, timeVars, callVars>>

\* _on_trigger up to its first await (lines 147-175), entered when the job
\* of j fires; a job with a date trigger is gone once it has fired.
_on_trigger(j) ==
    /\ Len(triggers) < MaxFires
    /\ j \in taskJobs
    /\ LET k == FindBy(tasks, "task_id", j.id)
           fired == IF IsCron(j.trigger) THEN taskJobs ELSE taskJobs \ {j}
       IN  IF k = 0
           THEN /\ triggers' = Append(triggers, [task_id |-> j.id, pc |-> "done",
                                                 found |-> FALSE])
                /\ taskJobs' = fired
                /\ UNCHANGED tasks
           ELSE LET task == [tasks[k] EXCEPT !.run_count = @ + 1,
                                             !.last_run = Some(today)]
                    expired == Expired(task, today)
                IN  /\ tasks' = _save_tasks(IF expired THEN Without(tasks, j.id)
                                             ELSE [tasks EXCEPT ![k] = task])
                    /\ taskJobs' = IF expired THEN RemoveJob(fired, j.id) ELSE fired
                    /\ triggers' = Append(triggers,
                                          [task_id |-> j.id, pc |-> "invoke",
                                           found |-> TRUE, task |-> task,
                                           expired |-> expired,
                                           header |-> Header(task),
                                           result |-> None])
    /\ UNCHANGED <<nextTaskId, today>>
    /\ UNCHANGED <<agentVars, dispVars, obsVars, mediaVars, unitVars, handleVars, timeVars, callVars>>

\* Line 177: `await agent.invoke(header + "\n" + content)` takes the agent
\* lock and starts the graph run, in the coroutine of the trigger.
TriggerInvoke(t) ==
    /\ triggers[t].pc = "invoke"
    /\ AgentAcquire("trigger", "user_message",
                    triggers[t].header \o "\n" \o triggers[t].task.content,
                    <<>>, <<>>, <<>>)
    /\ triggers' = [triggers EXCEPT ![t].pc = "collect"]
    /\ UNCHANGED <<tasks, taskJobs, nextTaskId, today>>
    /\ UNCHANGED <<dispVars, enq, sent, mediaVars, unitVars, command, perms, timeVars, callVars>>

\* The segments of the answer are collected into the reply.
TriggerCollect(t) ==
    /\ triggers[t].pc = "collect"
    /\ Yield("trigger")
    /\ UNCHANGED <<dispVars, obsVars, envVars>>

\* agent.invoke returns the joined segments.
TriggerReturn(t) ==
    /\ triggers[t].pc = "collect"
    /\ AgentFinish("trigger")
    /\ triggers' = [triggers EXCEPT ![t].pc = "reply"]
    /\ UNCHANGED <<tasks, taskJobs, nextTaskId, today>>
    /\ UNCHANGED <<dispVars, enq, llmLog, sent, mediaVars, unitVars, handleVars, timeVars, callVars>>

\* Lines 178-183: _send_reply posts the reply to the task's source (and
\* fails on a task without source); a complex_repeat task that is not
\* expired and still in the store goes on to _reschedule.
TriggerReply(t) ==
    /\ triggers[t].pc = "reply"
    /\ IF triggers[t].task.source = None
       THEN /\ triggers' = [triggers EXCEPT ![t].pc = "failed"]
            /\ UNCHANGED sent
       ELSE /\ sent' = Append(sent, [reply_fn |-> 0,
                                     source_key |-> SourceKey(triggers[t].task.source[1]),
                                     invocation |-> Len(llmLog),
                                     seg |-> 0,
                                     pending |-> PendingSidecars])
            /\ triggers' = [triggers EXCEPT ![t].pc =
                    IF /\ triggers[t].task.type = "complex_repeat"
                       /\ ~triggers[t].expired
                       /\ FindBy(tasks, "task_id", triggers[t].task_id) # 0
                    THEN "reschedule" ELSE "done"]
    /\ UNCHANGED <<tasks, taskJobs, nextTaskId, today>>
    /\ UNCHANGED <<agentVars, dispVars, enq, llmLog, lastReturn, clearedSince,
                   mediaVars, unitVars, handleVars, timeVars, callVars>>

\* _reschedule, lines 197-214: the structured call of the LLM, a graph run
\* for the reason complex_reschedule.
RescheduleInvoke(t) ==
    /\ triggers[t].pc = "reschedule"
    /\ AgentAcquire("trigger", "complex_reschedule", "", <<>>,
                    <<SystemMessage("timer_prompt"),
                      HumanMessage(triggers[t].task.name, <<>>)>>, <<>>)
    /\ triggers' = [triggers EXCEPT ![t].pc = "utility"]
    /\ UNCHANGED <<tasks, taskJobs, nextTaskId, today>>
    /\ UNCHANGED <<dispVars, enq, sent, mediaVars, unitVars, command, perms, timeVars, callVars>>

\* The answers of the LLM to the reschedule prompt, _RescheduleOutput: a
\* cancel with every other field None, or a reschedule with a trigger and
\* possibly a new name.
RescheduleOutputs ==
    {[action |-> "cancel", trigger |-> None, name |-> None, content |-> None,
      original_prompt |-> None]}
    \cup {[action |-> "reschedule", trigger |-> Some(DateTrigger), name |-> n,
           content |-> None, original_prompt |-> None] :
              n \in {None} \cup {Some(x) : x \in Names}}

\* Mutant of the update: a field the result leaves None is emptied.
UpdateFieldsAll(target, result) ==
    [target EXCEPT
        !.trigger = IF result.trigger # None THEN result.trigger[1] ELSE @,
        !.name = IF result.name # None THEN result.name[1] ELSE "",
        !.content = IF result.content # None THEN result.content[1] ELSE "",
        !.original_prompt = result.original_prompt]

\* Lines 228-231: the fields of the result that are not None are stored.
UpdateFields(target, result) ==
    [target EXCEPT
        !.trigger = IF result.trigger # None THEN result.trigger[1] ELSE @,
        !.name = IF result.name # None THEN result.name[1] ELSE @,
        !.content = IF result.content # None THEN result.content[1] ELSE @,
        !.original_prompt = IF result.original_prompt # None
                            THEN result.original_prompt ELSE @]

\* Mutant of _reschedule: the task the fire took is updated and put back
\* when the store no longer holds it.
RescheduleWritesBack(t, result) ==
    /\ triggers[t].pc = "utility"
    /\ AgentFinish("trigger")
    /\ LET k == FindBy(tasks, "task_id", triggers[t].task_id)
       IN  CASE result.action = "cancel" ->
                  /\ tasks' = _save_tasks(Without(tasks, triggers[t].task_id))
                  /\ taskJobs' = RemoveJob(taskJobs, triggers[t].task_id)
             [] result.action = "reschedule" /\ k # 0 ->
                  /\ tasks' = _save_tasks([tasks EXCEPT
                                               ![k] = UpdateFields(tasks[k], result)])
                  /\ taskJobs' = _register_apscheduler_job(taskJobs,
                                                           UpdateFields(tasks[k], result))
             [] OTHER ->
                  /\ tasks' = _save_tasks(Append(tasks,
                                                 UpdateFields(triggers[t].task, result)))
                  /\ taskJobs' = _register_apscheduler_job(
                                     taskJobs, UpdateFields(triggers[t].task, result))
    /\ triggers' = [triggers EXCEPT ![t].pc = "done", ![t].result = Some(result)]
    /\ UNCHANGED <<nextTaskId, today>>
    /\ UNCHANGED <<dispVars, enq, llmLog, sent, mediaVars, unitVars, handleVars, timeVars, callVars>>

\* _reschedule, lines 216-233, with the result of the LLM.
_reschedule(t, result) ==
    /\ triggers[t].pc = "utility"
    /\ AgentFinish("trigger")
    /\ LET k == FindBy(tasks, "task_id", triggers[t].task_id)
       IN  CASE result.action = "cancel" ->
                  /\ tasks' = _save_tasks(Without(tasks, triggers[t].task_id))
                  /\ taskJobs' = RemoveJob(taskJobs, triggers[t].task_id)
             [] result.action = "reschedule" /\ k # 0 ->
                  /\ tasks' = _save_tasks([tasks EXCEPT
                                               ![k] = UpdateFields(tasks[k], result)])
                  /\ taskJobs' = _register_apscheduler_job(taskJobs,
                                                           UpdateFields(tasks[k], result))
             [] OTHER -> UNCHANGED <<tasks, taskJobs>>
    /\ triggers' = [triggers EXCEPT ![t].pc = "done", ![t].result = Some(result)]
    /\ UNCHANGED <<nextTaskId, today>>
    /\ UNCHANGED <<dispVars, enq, llmLog, sent, mediaVars, unitVars, handleVars, timeVars, callVars>>

\* The date of datetime.now() moves on.
Tick ==
    /\ today < MaxDay
    /\ today' = today + 1
    /\ UNCHANGED <<tasks, taskJobs, nextTaskId, triggers>>
    /\ UNCHANGED <<agentVars, dispVars, obsVars, mediaVars, unitVars, handleVars, timeVars, callVars>>

\* The graph run of the lock holder advances by one node: llm, finalize or
\* utility, with an LLM that calls no tool and stays under the limit.
GraphStepTasks ==
    /\ \/ \E k \in 1..MaxSegs : LlmNode(FALSE, 100, k)
       \/ finalize_node
       \/ utility_node
    /\ UNCHANGED <<dispVars, obsVars, envVars>>

(***************************************************************************)
(* SpecTasks: the task tools and the trigger workflow, with tasks of every *)
(* type, run budgets of none, 0 and 2, and an end date or none.            *)
(***************************************************************************)
\* The type, max_runs and end_date the LLM gives to create_task.
TaskArgs ==
    {[type |-> "once", max_runs |-> None, end_date |-> None,
      original_prompt |-> None],
     [type |-> "repeat", max_runs |-> None, end_date |-> Some(1),
      original_prompt |-> None],
     [type |-> "repeat", max_runs |-> Some(0), end_date |-> None,
      original_prompt |-> None],
     [type |-> "repeat", max_runs |-> Some(2), end_date |-> None,
      original_prompt |-> None],
     [type |-> "complex_repeat", max_runs |-> None, end_date |-> None,
      original_prompt |-> Some("p")]}

NextTasks ==
    \/ \E a \in TaskArgs, name \in Names :
          nextTaskId <= MaxTasks /\
          create_task(a.type, name, "c" \o ToString(nextTaskId),
                      IF a.type = "once" THEN DateTrigger ELSE CronTrigger,
                      Some([type |-> "group", id |-> "1"]), a.max_runs, a.end_date,
                      a.original_prompt)
    \/ \E task_id \in 0..MaxTasks, name \in {""} \cup Names :
          (task_id = 0 \/ name = "") /\ cancel_task(task_id, name)
    \/ \E j \in taskJobs : _on_trigger(j)
    \/ \E t \in DOMAIN triggers : TriggerInvoke(t)
    \/ \E t \in DOMAIN triggers : TriggerCollect(t)
    \/ \E t \in DOMAIN triggers : TriggerReturn(t)
    \/ \E t \in DOMAIN triggers : TriggerReply(t)
    \/ \E t \in DOMAIN triggers : RescheduleInvoke(t)
    \/ \E t \in DOMAIN triggers, result \in RescheduleOutputs : _reschedule(t, result)
    \/ Tick
    \/ GraphStepTasks

SpecTasks == Init /\ [][NextTasks]_vars

(***************************************************************************)
(* Claims about the scheduled tasks, checked under SpecTasks.              *)
(***************************************************************************)
\* The _on_trigger calls that found their task in the store.
Fired == {t \in DOMAIN triggers : triggers[t].found}

\* C8: every _on_trigger that found its task and has returned made an
\* Enqueue at priority SCHEDULED with the header and the content as text
\* and the source key of task.source, there are no more SCHEDULED items
\* than such calls, and no prompt of a task reached the LLM from the
\* coroutine of the trigger itself.
C8_FiresThroughQueue ==
    /\ \A n \in DOMAIN llmLog :
           llmLog[n].by = "trigger" => llmLog[n].reason = "complex_reschedule"
    /\ \A t \in Fired :
           triggers[t].pc = "done" =>
               \E c \in DOMAIN enq :
                   /\ enq[c].priority = PRIORITY_SCHEDULED
                   /\ enq[c].msg = triggers[t].header \o "\n" \o triggers[t].task.content
                   /\ triggers[t].task.source # None
                   /\ enq[c].source_key = SourceKey(triggers[t].task.source[1])
    /\ Cardinality({c \in DOMAIN enq : enq[c].priority = PRIORITY_SCHEDULED})
           <= Cardinality(Fired)

\* The step of an _on_trigger that finds its task: run_count grows by one,
\* last_run is set, the task leaves the store exactly when it is expired by
\* the given reading of the run budget, stays with its new run_count
\* otherwise, and the other tasks stay as they are, in their order.
C9_FireStep(zeroIsBudget) ==
    (Len(triggers') = Len(triggers) + 1 /\ triggers'[Len(triggers')].found) =>
        LET tr == triggers'[Len(triggers')]
            old == tasks[FindBy(tasks, "task_id", tr.task_id)]
            rc == old.run_count + 1
            k2 == FindBy(tasks', "task_id", tr.task_id)
            gone == \/ old.type = "once"
                    \/ /\ old.max_runs # None
                       /\ zeroIsBudget \/ old.max_runs[1] # 0
                       /\ rc >= old.max_runs[1]
                    \/ (old.end_date # None /\ today > old.end_date[1])
        IN  /\ tr.task.run_count = rc
            /\ tr.task.last_run = Some(today)
            /\ (k2 = 0) <=> gone
            /\ k2 # 0 => tasks'[k2] = [old EXCEPT !.run_count = rc,
                                                  !.last_run = Some(today)]
            /\ Without(tasks', tr.task_id) = Without(tasks, tr.task_id)

\* C9 as stated: the task is absent after the persist step iff it is ONCE,
\* or max_runs is set (0 included) and the new run_count >= max_runs, or
\* end_date is set and today > end_date.
C9_AnyBudget == [][C9_FireStep(TRUE)]_vars

\* C9, amended: _on_trigger for a task in the store increments run_count by
\* one and sets last_run; after the persist step the task is absent iff its
\* kind is ONCE, or max_runs is set and not 0 and the new run_count >=
\* max_runs, or end_date is set and today > end_date; otherwise it is
\* present with the new run_count and last_run; every other task is
\* unchanged.
C9_FirePath == [][C9_FireStep(FALSE)]_vars

\* Witness of C9: a repeat task with a run budget of 2 has fired twice and
\* left the store at its second run, while another task is still there.
C9_Witness ==
    /\ Len(triggers) = 2
    /\ triggers[1].found /\ triggers[2].found
    /\ triggers[1].task_id = triggers[2].task_id
    /\ triggers[2].task.max_runs = Some(2)
    /\ triggers[2].task.run_count = 2
    /\ FindBy(tasks, "task_id", triggers[2].task_id) = 0
    /\ tasks # <<>>

\* C10: no two tasks in the store have the same name.
C10_NamesUnique ==
    \A i, j \in DOMAIN tasks : i # j => tasks[i].name # tasks[j].name

(***************************************************************************)
(* The other callers of the agent: the inactivity timers of scheduler.py,  *)
(* the admin commands of commands.py and register of scheduled_tasks.py.   *)
(***************************************************************************)
\* The job session_summarize fires: _on_session_summarize starts.
TimerFire ==
    /\ "session_summarize" \in jobs
    /\ callers.timer = "idle"
    /\ jobs' = jobs \ {"session_summarize"}
    /\ run_date' = remove_job(run_date, "session_summarize")
    /\ callers' = [callers EXCEPT !.timer = "invoke", !.batch_done = FALSE,
                                  !.batch_kept = FALSE]
    /\ UNCHANGED <<agentVars, queue, counter, processing, current_source, workers,
                   apscheduler, obsVars, mediaVars, unitVars, handleVars, now, taskVars>>

\* scheduler.py line 164, commands.py line 205: _invoke("session_timeout")
\* by the timer or by /summarize.
SummarizeInvoke(c) ==
    /\ callers[c] = IF c = "timer" THEN "invoke" ELSE "idle"
    /\ AgentAcquire(c, "session_timeout", "", <<>>, <<>>, <<>>)
    /\ callers' = [callers EXCEPT ![c] = "run"]
    /\ UNCHANGED <<dispVars, enq, sent, mediaVars, unitVars, command, perms, timeVars, taskVars>>

\* _on_session_summarize, lines 165-174: the generator is exhausted and the
\* job session_clear is set.
_on_session_summarize ==
    /\ callers.timer = "run"
    /\ AgentFinish("timer")
    /\ jobs' = IF apscheduler THEN jobs \cup {"session_clear"} ELSE jobs
    /\ run_date' = IF apscheduler
                   THEN add_job(run_date, "session_clear", now + timeout_clear_seconds)
                   ELSE run_date
    /\ callers' = [callers EXCEPT !.timer = "idle"]
    /\ UNCHANGED <<queue, counter, processing, current_source, workers, apscheduler,
                   enq, llmLog, sent, mediaVars, unitVars, handleVars, now, taskVars>>

\* _on_session_clear, with the job session_clear that fires.
_on_session_clear ==
    /\ "session_clear" \in jobs
    /\ jobs' = jobs \ {"session_clear"}
    /\ run_date' = remove_job(run_date, "session_clear")
    /\ clear_history
    /\ UNCHANGED <<holders, run, current_token_usage, queue, counter, processing,
                   current_source, workers, apscheduler, enq, llmLog, sent,
                   lastReturn, mediaVars, taskVars, callVars, unitVars, handleVars, now>>

\* _cmd_summarize, lines 206-207.
_cmd_summarize ==
    /\ callers.cmd = "run"
    /\ AgentFinish("cmd")
    /\ callers' = [callers EXCEPT !.cmd = "done"]
    /\ UNCHANGED <<dispVars, enq, llmLog, sent, mediaVars, unitVars, handleVars, timeVars, taskVars>>

\* _cmd_clear_context
_cmd_clear_context ==
    /\ clear_history
    /\ UNCHANGED <<holders, run, current_token_usage, dispVars, enq, llmLog, sent,
                   lastReturn, envVars>>

\* for task in tasks: _register_apscheduler_job(task)
RECURSIVE RegisterAll(_, _)
RegisterAll(jobs_, ts) ==
    IF ts = <<>> THEN jobs_
    ELSE RegisterAll(_register_apscheduler_job(jobs_, Head(ts)), Tail(ts))

\* The text of _recover_missed for the missed tasks.
MissedLines(ts, missed) ==
    JoinNL(<<"missed:">> \o
           [i \in 1..Len(SelectSeq(ts, LAMBDA t : t.task_id \in missed)) |->
               SelectSeq(ts, LAMBDA t : t.task_id \in missed)[i].name])

\* register with _recover_missed, lines 238-263 and 273-280: missed is the
\* set of tasks whose time has passed.  Without a missed task the list is
\* saved and the jobs are registered at once.
register(missed) ==
    /\ callers.recovery = "idle"
    /\ missed \subseteq {tasks[i].task_id : i \in DOMAIN tasks}
    /\ IF missed = {}
       THEN /\ callers' = [callers EXCEPT !.recovery = "done"]
            /\ taskJobs' = RegisterAll(taskJobs, tasks)
       ELSE /\ callers' = [callers EXCEPT !.recovery = "invoke", !.loaded = tasks,
                                          !.missed = missed]
            /\ UNCHANGED taskJobs
    /\ UNCHANGED <<tasks, nextTaskId, today, triggers>>
    /\ UNCHANGED <<agentVars, dispVars, obsVars, mediaVars, unitVars, handleVars, timeVars>>

\* Line 260: `await agent.invoke(...)` of _recover_missed.
RecoveryInvoke ==
    /\ callers.recovery = "invoke"
    /\ AgentAcquire("recovery", "user_message",
                    MissedLines(callers.loaded, callers.missed), <<>>, <<>>, <<>>)
    /\ callers' = [callers EXCEPT !.recovery = "collect"]
    /\ UNCHANGED <<dispVars, enq, sent, mediaVars, unitVars, command, perms, timeVars, taskVars>>

RecoveryCollect ==
    /\ callers.recovery = "collect"
    /\ Yield("recovery")
    /\ UNCHANGED <<dispVars, obsVars, envVars>>

\* Lines 262-263 and 275-280: the missed once tasks are dropped from the
\* list that was loaded, the list is saved and the jobs are registered.
RecoveryReturn ==
    /\ callers.recovery = "collect"
    /\ AgentFinish("recovery")
    /\ LET kept == SelectSeq(callers.loaded,
                             LAMBDA t : ~(t.task_id \in callers.missed /\ t.type = "once"))
       IN  /\ tasks' = _save_tasks(kept)
           /\ taskJobs' = RegisterAll(taskJobs, kept)
    /\ callers' = [callers EXCEPT !.recovery = "done"]
    /\ UNCHANGED <<nextTaskId, today, triggers>>
    /\ UNCHANGED <<dispVars, enq, llmLog, sent, mediaVars, unitVars, handleVars, timeVars>>

\* The graph run of the lock holder advances by one node: llm, finalize or
\* summarize_all, with an LLM that calls no tool and stays under the limit.
GraphStepAgent ==
    /\ \/ \E k \in 1..MaxSegs : LlmNode(FALSE, 100, k)
       \/ finalize_node
       \/ summarize_all_node(100, 10)
    /\ UNCHANGED <<dispVars, obsVars, envVars>>

\* The process has started with one repeat task in tasks.json and
\* init_timeout has set _apscheduler; register has not run yet.
StoredTask ==
    [task_id |-> 1, type |-> "repeat", name |-> "a", content |-> "c1",
     trigger |-> CronTrigger, source |-> Some([type |-> "group", id |-> "1"]),
     run_count |-> 0, last_run |-> None, max_runs |-> None, end_date |-> None,
     original_prompt |-> None]

InitStored ==
    /\ InitAgent
    /\ InitDispatcher
    /\ apscheduler = TRUE
    /\ InitMedia
    /\ tasks = <<StoredTask>>
    /\ taskJobs = {}
    /\ nextTaskId = 2
    /\ today = 1
    /\ triggers = <<>>
    /\ InitCallers
    /\ InitUnits

(***************************************************************************)
(* SpecAgent: every caller of the agent at once: the dispatcher worker,    *)
(* the inactivity timers, /summarize and /clear_context, startup recovery  *)
(* and the trigger of a stored task.                                       *)
(***************************************************************************)
NextAgent ==
    \/ \E s \in {"private_2"} :
          counter < MaxAgentEnqueue /\ Enqueue(PRIORITY_USER_MESSAGE, s)
    \/ \E w \in DOMAIN workers : Drain(w)
    \/ \E w \in DOMAIN workers : BeginGroup(w)
    \/ \E w \in DOMAIN workers : Reply(w)
    \/ \E w \in DOMAIN workers : EndGroup(w)
    \/ \E w \in DOMAIN workers : Post(w)
    \/ TimerFire
    \/ \E c \in {"timer", "cmd"} : SummarizeInvoke(c)
    \/ _on_session_summarize
    \/ _on_session_clear
    \/ _cmd_summarize
    \/ _cmd_clear_context
    \/ \E missed \in SUBSET {1} : register(missed)
    \/ RecoveryInvoke
    \/ RecoveryCollect
    \/ RecoveryReturn
    \/ \E j \in taskJobs : Len(triggers) < MaxAgentFires /\ _on_trigger(j)
    \/ \E t \in DOMAIN triggers : TriggerInvoke(t)
    \/ \E t \in DOMAIN triggers : TriggerCollect(t)
    \/ \E t \in DOMAIN triggers : TriggerReturn(t)
    \/ \E t \in DOMAIN triggers : TriggerReply(t)
    \/ GraphStepAgent

SpecAgent == InitStored /\ [][NextAgent]_vars

(***************************************************************************)
(* Claims about the agent, checked under SpecAgent.                        *)
(***************************************************************************)
\* At most one caller is inside _invoke, and the graph run is its run.
C1_OneHolder ==
    /\ Cardinality(holders) <= 1
    /\ holders = {} <=> run.node = "idle"
    /\ holders # {} => holders = {run.by}

\* A caller enters only when no run is in flight, and the lock is released
\* only by a run that has reached its terminal node.
C1_Handover ==
    /\ \A c \in holders' \ holders : holders = {} /\ run = IdleRun
    /\ \A c \in holders \ holders' : run.node = "end" /\ run.by = c

\* C1: for every interleaving of the dispatcher worker, the session
\* timer, the trigger of a scheduled task, startup recovery and /summarize,
\* at most one graph run is in flight at any time, and a caller starts its
\* run only after the run before it has reached its terminal node and
\* released the agent lock.
C1_SingleFlight == []C1_OneHolder /\ [][C1_Handover]_vars

\* Witness of C1: /summarize holds the lock in the middle of its run while
\* the worker and recovery wait to invoke.
C1_Witness ==
    /\ holders = {"cmd"}
    /\ run.node = "summarize_all"
    /\ \E w \in DOMAIN workers : workers[w].pc = "invoke"
    /\ callers.recovery = "invoke"

\* The user_message and scheduled_task invocations.
Turns == {n \in DOMAIN llmLog : llmLog[n].reason \in {"user_message", "scheduled_task"}}

\* C2 as stated: the messages handed to the graph are the history as it
\* stood when the previous invocation returned, followed by one human
\* message with the invocation's content.
C2_FromPreviousReturn ==
    \A n \in Turns :
        llmLog[n].messages =
            llmLog[n].prev \o <<HumanMessage(llmLog[n].content, llmLog[n].blocks)>>

\* C2, amended: for every user_message or scheduled_task invocation, the
\* messages handed to the graph are the history as it stood when the
\* previous invocation returned, or the empty history when clear_history
\* ran since then, followed by exactly one new human message carrying the
\* invocation's content; no message of that history is dropped, duplicated
\* or reordered.
C2_HistoryContinuity ==
    \A n \in Turns :
        llmLog[n].messages =
            (IF llmLog[n].cleared THEN <<>> ELSE llmLog[n].prev)
                \o <<HumanMessage(llmLog[n].content, llmLog[n].blocks)>>

\* Witness of C2: an invocation that continued a history of an earlier
\* turn, and a later one that started from the history cleared in between.
C2_Witness ==
    \E m, n \in Turns :
        /\ m < n
        /\ ~llmLog[m].cleared /\ Len(llmLog[m].prev) >= 2
        /\ Len(llmLog[m].messages) = Len(llmLog[m].prev) + 1
        /\ llmLog[n].cleared /\ llmLog[n].prev # <<>>
        /\ Len(llmLog[n].messages) = 1


(***************************************************************************)
(* SpecStore: the two tools on the store alone, from an empty tasks.json,  *)
(* with up to MaxCreates creations and any cancel in between.              *)
(***************************************************************************)
MaxCreates == 3

\* A call of create_task as the LLM makes it.
CreateCall(a, name, source) ==
    create_task(a.type, name, "c" \o ToString(nextTaskId),
                IF a.type = "once" THEN DateTrigger ELSE CronTrigger,
                source, a.max_runs, a.end_date, a.original_prompt)

\* The source is omitted or given.
CallSources == {None, Some([type |-> "group", id |-> "1"])}

NextStore ==
    \/ \E a \in TaskArgs, name \in Names, source \in CallSources :
          nextTaskId <= MaxCreates /\ CreateCall(a, name, source)
    \/ \E task_id \in 0..MaxCreates, name \in {""} \cup ExistingNames(tasks) :
          (task_id = 0 \/ name = "") /\ cancel_task(task_id, name)

SpecStore == Init /\ [][NextStore]_vars

\* The name n(i).
Suffixed(n, i) == n \o "(" \o ToString(i) \o ")"

\* The name the claim gives to a task requested as n over the stored names.
DedupName(n, stored) ==
    IF n \notin stored THEN n
    ELSE Suffixed(n, CHOOSE i \in 1..(Cardinality(stored) + 1) :
                         /\ Suffixed(n, i) \notin stored
                         /\ \A j \in 1..(i - 1) : Suffixed(n, j) \in stored)

\* C11: a create_task with requested name n stores the new task under n
\* when no stored task is named n, and otherwise under n(i) for the smallest
\* i >= 1 such that no stored task is named n(i); three creations of one
\* name with no cancel in between are stored as n, n(1), n(2).
C11_DedupStep ==
    \A a \in TaskArgs, n \in Names, source \in CallSources :
        (nextTaskId' # nextTaskId /\ CreateCall(a, n, source)) =>
            /\ Len(tasks') = Len(tasks) + 1
            /\ tasks'[Len(tasks')].name = DedupName(n, ExistingNames(tasks))
            /\ (Len(tasks) = 2 /\ nextTaskId = 3
                   /\ tasks[1].name = n /\ tasks[2].name = Suffixed(n, 1))
                  => tasks'[3].name = Suffixed(n, 2)

C11_NameDeduplication == [][C11_DedupStep]_vars

\* Witness of C11: three creations of the name "a" with no cancel in
\* between.
C11_Witness ==
    /\ nextTaskId = 4
    /\ Len(tasks) = 3
    /\ tasks[1].name = "a" /\ tasks[2].name = "a(1)" /\ tasks[3].name = "a(2)"

\* C12: after a create_task, the list loaded from the store ends with a
\* record whose type, name (as deduplicated), content, trigger, source,
\* max_runs, end_date and original_prompt are the values given (for an
\* omitted source, the current source of message_handler), with run_count 0
\* and last_run null, and the records stored before are unchanged.
C12_RoundTripStep ==
    \A a \in TaskArgs, n \in Names, source \in CallSources :
        (nextTaskId' # nextTaskId /\ CreateCall(a, n, source)) =>
            /\ Len(tasks') = Len(tasks) + 1
            /\ SubSeq(tasks', 1, Len(tasks)) = tasks
            /\ LET rec == tasks'[Len(tasks')]
               IN  /\ rec.type = a.type
                   /\ rec.name = DedupName(n, ExistingNames(tasks))
                   /\ rec.content = "c" \o ToString(nextTaskId)
                   /\ rec.trigger = (IF a.type = "once" THEN DateTrigger ELSE CronTrigger)
                   /\ rec.source = (IF source = None THEN mh_get_current_source
                                    ELSE source)
                   /\ rec.max_runs = a.max_runs
                   /\ rec.end_date = a.end_date
                   /\ rec.original_prompt = a.original_prompt
                   /\ rec.run_count = 0
                   /\ rec.last_run = None

C12_RoundTrip == [][C12_RoundTripStep]_vars

\* Witness of C12: a task with a run budget of 0 and one with an original
\* prompt were created and are in the store with a third one.
C12_Witness ==
    /\ Len(tasks) = 3
    /\ \E i, j \in DOMAIN tasks :
           /\ tasks[i].max_runs = Some(0) /\ tasks[i].run_count = 0
           /\ tasks[j].original_prompt = Some("p") /\ tasks[j].source = None

(***************************************************************************)
(* SpecSave: _save_tasks at the grain of its file operations, over any     *)
(* stored list and any new list, with a crash of the process at any point. *)
(* A file is None (absent) or Some of its text, the objects written so far *)
(* and whether the closing bracket is written.                             *)
(***************************************************************************)
MaxStored == 2

\* The file written by `open(tmp, "w")`: in place of tmp for the mutant.
WriteInPlace == "store"

\* Line 38: tmp = TASKS_PATH + ".tmp"
TmpPath == "tmp"

\* The complete file of a list.
FileOf(ts) == Some([text |-> json_dump(ts), closed |-> TRUE])

\* _load_tasks, lines 29-33, on the files: Some([]) without a file, Some
\* of the list of a complete file, and None where json.load raises.
_load_tasks(files) ==
    IF files.store = None THEN Some(<<>>)
    ELSE IF files.store[1].closed THEN Some(json_load(files.store[1].text))
    ELSE None

\* The tasks a stored list is made of, and the lists without a repeated id.
SomeTasks ==
    {[StoredTask EXCEPT !.task_id = i, !.name = n, !.run_count = i - 1] :
        i \in 1..MaxStored, n \in Names}

StoredLists ==
    {<<>>} \cup {<<t>> : t \in SomeTasks}
        \cup {p \in SomeTasks \X SomeTasks : p[1].task_id # p[2].task_id}

InitSave ==
    /\ InitAgent
    /\ InitDispatcher
    /\ apscheduler = FALSE
    /\ InitMedia
    /\ InitCallers
    /\ tasks \in StoredLists
    /\ taskJobs = {}
    /\ nextTaskId = MaxStored + 1
    /\ today = 1
    /\ triggers = <<>>
    /\ save \in {[IdleSave EXCEPT !.arg = tasks, !.prev = Some(tasks),
                                   !.files.store = f] :
                      f \in {FileOf(tasks)} \cup (IF tasks = <<>> THEN {None} ELSE {})}
    /\ boot = IdleBoot
    /\ stream = IdleStream

\* A caller enters _save_tasks(new); line 37 leaves the files alone.
SaveCall(new) ==
    /\ save.pc = "idle"
    /\ save' = [save EXCEPT !.pc = "open", !.arg = new, !.prev = _load_tasks(save.files)]
    /\ UNCHANGED tasks

\* Line 39: open(tmp, "w") creates the file or truncates it.
SaveOpen ==
    /\ save.pc = "open"
    /\ save' = [save EXCEPT !.pc = "write",
                            !.files[TmpPath] = Some([text |-> <<>>, closed |-> FALSE])]
    /\ UNCHANGED tasks

\* Line 40: json.dump writes the text piece by piece, here the next object
\* of the list or, after the last one, the closing bracket.
SaveWrite ==
    /\ save.pc = "write"
    /\ LET f == save.files[TmpPath][1]
           all == json_dump(save.arg)
       IN  IF Len(f.text) < Len(all)
           THEN save' = [save EXCEPT !.files[TmpPath] =
                            Some([f EXCEPT !.text = Append(@, all[Len(f.text) + 1])])]
           ELSE save' = [save EXCEPT !.pc = "replace",
                                     !.files[TmpPath] = Some([f EXCEPT !.closed = TRUE])]
    /\ UNCHANGED tasks

\* Line 41: os.replace(tmp, TASKS_PATH), one rename; _save_tasks returns.
SaveReplace ==
    /\ save.pc = "replace"
    /\ LET moved == IF TmpPath = "store" THEN save.files
                    ELSE [store |-> save.files[TmpPath], tmp |-> None]
       IN  /\ save' = [save EXCEPT !.pc = "idle", !.files = moved]
           /\ tasks' = IF _load_tasks(moved) = None THEN tasks
                       ELSE _load_tasks(moved)[1]

\* The process dies inside _save_tasks; the files stay as they are.
Crash ==
    /\ save.pc \in {"open", "write", "replace"}
    /\ save' = [save EXCEPT !.pc = "crashed at " \o save.pc]
    /\ UNCHANGED tasks

\* The process is started again and register loads the store.
Restart ==
    /\ save.pc \in {"crashed at open", "crashed at write", "crashed at replace"}
    /\ _load_tasks(save.files) # None
    /\ save' = [save EXCEPT !.pc = "idle", !.arg = _load_tasks(save.files)[1]]
    /\ UNCHANGED tasks

NextSave ==
    /\ \/ \E new \in StoredLists : SaveCall(new)
       \/ SaveOpen
       \/ SaveWrite
       \/ SaveReplace
       \/ Crash
       \/ Restart
    /\ UNCHANGED <<taskJobs, nextTaskId, today, triggers, boot, stream, timeVars, handleVars>>
    /\ UNCHANGED <<agentVars, dispVars, obsVars, mediaVars, callVars>>

SpecSave == InitSave /\ [][NextSave]_vars

\* C13: at every point of a save, and after a crash at any of them, the
\* store file holds a complete list that is the previous list or the new
\* one: the previous list up to the rename, the new list after it.
C13_AtomicStore ==
    /\ _load_tasks(save.files) # None
    /\ _load_tasks(save.files) =
           (IF save.pc = "idle" THEN Some(save.arg) ELSE save.prev)

\* Witness of C13: the process died while the temp file was being
\* written; a part of a new list of two tasks is in the temp file and the
\* previous list, another one, was not empty.
C13_Witness ==
    /\ save.pc = "crashed at write"
    /\ Len(save.arg) = 2
    /\ save.prev # Some(<<>>) /\ save.prev # Some(save.arg)
    /\ save.files.tmp # None
    /\ Len(save.files.tmp[1].text) = 1

(***************************************************************************)
(* SpecRecover: register over any stored list, at any time of the start.   *)
(* Time counts in quarters of a day: 4 * day + slot, the daily cron        *)
(* "0 9 * * *" firing at slot 1 of every day and the date trigger          *)
(* "2026-03-01T10:00:00" being slot 2 of day 1; day 0 stands for           *)
(* datetime(2000, 1, 1).  A last_run of day d is the time the job of the   *)
(* task ran on that day.                                                   *)
(***************************************************************************)
TimeAt(day, slot) == 4 * day + slot

\* datetime.fromisoformat of a date trigger and of last_run.
TriggerTime(task) == TimeAt(1, 2)
\* A complex_repeat task last ran at the cron slot it had before any
\* reschedule wrote a date into its trigger.
LastRunTime(task) ==
    TimeAt(task.last_run[1],
           IF IsCron(task.trigger) \/ task.type = "complex_repeat" THEN 1 ELSE 2)

\* CronTrigger.get_next_fire_time(previous_fire_time, now): the first fire
\* time after the previous one or, without one, the first at or after now.
get_next_fire_time(previous_fire_time, now_) ==
    LET start == IF previous_fire_time # None THEN previous_fire_time[1] + 1 ELSE now_
    IN  CHOOSE t \in start..(start + 3) : t % 4 = 1

\* Lines 242-253: the test of one task in _recover_missed.
IsMissed(task, now_) ==
    IF IsCron(task.trigger)
    THEN LET ref == IF task.last_run # None THEN Some(LastRunTime(task)) ELSE None
             min_time == IF ref # None THEN ref[1] ELSE TimeAt(0, 0)
         IN  get_next_fire_time(ref, min_time) < now_
    ELSE TriggerTime(task) < now_ /\ task.last_run = None

\* Lines 239-253: the ids of the missed tasks.
_recover_missed(ts, now_) == {ts[i].task_id : i \in {k \in DOMAIN ts : IsMissed(ts[k], now_)}}

\* The tasks a store may hold at the start: a once task that has not run or
\* has run, and cron tasks that have not run or ran on day 1.
BootTasks ==
    {[task_id |-> i, type |-> sh.type, name |-> "a", content |-> "c" \o ToString(i),
      trigger |-> IF sh.type = "once" THEN DateTrigger ELSE CronTrigger,
      source |-> Some([type |-> "group", id |-> "1"]), run_count |-> 0,
      last_run |-> sh.last_run, max_runs |-> None, end_date |-> None,
      original_prompt |-> None] :
        i \in 1..MaxStored,
        sh \in [type : TaskTypes, last_run : {None, Some(1)}]}

BootLists ==
    {<<>>} \cup {<<t>> : t \in {u \in BootTasks : u.task_id = 1}}
        \cup {p \in BootTasks \X BootTasks : p[1].task_id = 1 /\ p[2].task_id = 2}

\* The times a stored task may have been created at: long ago or just
\* before the start, and before it first ran.
CreatedTimes(task, now_) ==
    {c \in {TimeAt(0, 0), now_ - 1} :
        task.last_run # None => c < LastRunTime(task)}

InitRecover ==
    /\ InitAgent
    /\ InitDispatcher
    /\ apscheduler = TRUE
    /\ InitMedia
    /\ InitCallers
    /\ tasks \in BootLists
    /\ taskJobs = {}
    /\ nextTaskId = MaxStored + 1
    /\ today \in 1..MaxDay
    /\ triggers = <<>>
    /\ save = IdleSave
    /\ stream = IdleStream
    /\ \E slot \in 0..3 :
          \E created \in [DOMAIN tasks -> 0..TimeAt(today, slot)] :
              /\ \A i \in DOMAIN tasks :
                     /\ created[i] \in CreatedTimes(tasks[i], TimeAt(today, slot))
                     /\ tasks[i].last_run # None => LastRunTime(tasks[i]) < TimeAt(today, slot)
              /\ boot = [now |-> TimeAt(today, slot), created |-> created,
                         stored |-> tasks]

NextRecover ==
    \/ register(_recover_missed(tasks, boot.now))
    \/ RecoveryInvoke
    \/ RecoveryCollect
    \/ RecoveryReturn
    \/ (\E k \in 1..MaxSegs : LlmNode(FALSE, 100, k)) /\ UNCHANGED <<dispVars, obsVars, envVars>>
    \/ finalize_node /\ UNCHANGED <<dispVars, obsVars, envVars>>

SpecRecover == InitRecover /\ [][NextRecover]_vars

\* The stored task i was due during the downtime: a once task that has not
\* run and whose trigger is before now, or a cron task whose next fire time
\* after its last run (after its creation, when it has not run) is before
\* now.
Due(i) ==
    LET task == boot.stored[i]
    IN  IF task.type = "once"
        THEN TriggerTime(task) < boot.now /\ task.last_run = None
        ELSE get_next_fire_time(Some(IF task.last_run # None THEN LastRunTime(task)
                                     ELSE boot.created[i]), boot.now) < boot.now

DueIds == {boot.stored[i].task_id : i \in {k \in DOMAIN boot.stored : Due(k)}}

\* The prompts of the recovery.
RecoveryPrompts == {n \in DOMAIN llmLog : llmLog[n].by = "recovery"}

\* C14: once register has returned, the tasks reported to the agent are
\* the due ones, all in one prompt, and there is no prompt when none is
\* due; the due once tasks are absent from the store and every other task
\* is still in it.
C14_StartupRecovery ==
    callers.recovery = "done" =>
        /\ IF DueIds = {} THEN RecoveryPrompts = {}
           ELSE /\ Cardinality(RecoveryPrompts) = 1
                /\ \A n \in RecoveryPrompts :
                       llmLog[n].content = MissedLines(boot.stored, DueIds)
        /\ tasks = SelectSeq(boot.stored,
                             LAMBDA t : ~(t.task_id \in DueIds /\ t.type = "once"))

(***************************************************************************)
(* SpecGraph: the whole graph under user messages of one source, with an   *)
(* LLM that may call tools and may report more input tokens than the       *)
(* limit, with /summarize and with /clear_context.                         *)
(***************************************************************************)
MaxGraphEnqueue == 2
MaxTools == 1

\* The input tokens the LLM reports: under the limit and over it.
ReportedTokens == {context_limit_tokens - 1, context_limit_tokens + 1}

NextGraph ==
    \/ counter < MaxGraphEnqueue /\ Enqueue(PRIORITY_USER_MESSAGE, "private_2")
    \/ \E w \in DOMAIN workers : Drain(w)
    \/ \E w \in DOMAIN workers : BeginGroup(w)
    \/ \E w \in DOMAIN workers : Reply(w)
    \/ \E w \in DOMAIN workers : EndGroup(w)
    \/ \E w \in DOMAIN workers : Post(w)
    \/ SummarizeInvoke("cmd")
    \/ _cmd_summarize
    \/ _cmd_clear_context
    \/ (\E tool_calls \in BOOLEAN, input_tokens \in ReportedTokens, k \in 1..MaxSegs :
           /\ tool_calls => run.tools < MaxTools
           /\ LlmNode(tool_calls, input_tokens, k))
          /\ UNCHANGED <<dispVars, obsVars, envVars>>
    \/ ToolsNode /\ UNCHANGED <<dispVars, obsVars, envVars>>
    \/ finalize_node /\ UNCHANGED <<dispVars, obsVars, envVars>>
    \/ summarize_node(100, 10) /\ UNCHANGED <<dispVars, obsVars, envVars>>
    \/ summarize_all_node(100, 10) /\ UNCHANGED <<dispVars, obsVars, envVars>>

SpecGraph == Init /\ [][NextGraph]_vars

\* The turn of the run in flight: its human message and what the graph has
\* added after it.
TurnOfRun ==
    SubSeq(run.messages, Len(llmLog[Len(llmLog)].messages), Len(run.messages))

\* s ends with t.
EndsWith(s, t) ==
    /\ Len(s) >= Len(t)
    /\ SubSeq(s, Len(s) - Len(t) + 1, Len(s)) = t

\* C15: the summarize node of a user_message run leaves a history that
\* ends with the latest human message, the tool-call and tool-result
\* messages made for it and the reply, verbatim and in order, for any
\* prior history.
C15_SummarizeStep ==
    (run.node = "summarize" /\ run'.node = "end" /\ run.reason = "user_message")
        => EndsWith(history', TurnOfRun)

C15_KeepsLastTurn == [][C15_SummarizeStep]_vars

\* An assistant message that carries a tool call.
IsToolCall(m) == m.type = "ai" /\ m.tool_calls

\* Every tool-call message of msgs is followed at once by its tool result
\* and every tool result comes right after its tool-call message.
Paired(msgs) ==
    \A i \in DOMAIN msgs :
        /\ IsToolCall(msgs[i]) => (i < Len(msgs) /\ msgs[i + 1].type = "tool")
        /\ msgs[i].type = "tool" => (i > 1 /\ IsToolCall(msgs[i - 1]))

\* The list handed to the summarizing call of the node the run is at.
SummaryInput ==
    IF run.node = "summarize" THEN ToSummarize(run.messages)
    ELSE _safe_for_summary(run.messages)

\* C16: in every history stored by finalize, summarize or summarize_all,
\* each assistant message with a tool call is immediately followed by its
\* tool result and no tool result stands without its tool-call message
\* before it; the list sent to the summarizing LLM call does not end with
\* an unanswered tool-call message or an orphan tool result.
C16_ToolCallPairing ==
    /\ Paired(history)
    /\ run.node \in {"summarize", "summarize_all"} =>
           /\ Paired(SummaryInput)
           /\ SummaryInput # <<>> => ~IsToolCall(Last(SummaryInput))

\* Witness of C16: summarize has stored a history whose last turn holds a
\* tool call and its result, after a summary note.
C16_Witness ==
    /\ run.node = "end" /\ run.reason = "user_message"
    /\ Len(history) = 5
    /\ history[1].type = "system"
    /\ history[2].type = "human"
    /\ IsToolCall(history[3])
    /\ history[4].type = "tool"
    /\ history[5].type = "ai" /\ ~history[5].tool_calls

(***************************************************************************)
(* SpecStream: the stream loop of _invoke over any text the LLM streams,   *)
(* cut into chunks at any place.  A text is a sequence of characters: a    *)
(* letter, a space, a newline, "<", ">", and the words no-split and        *)
(* /no-split, which stand for their letters.  The streamed texts are made  *)
(* of the single characters and of the two whole tags.                     *)
(***************************************************************************)
MaxText == 5

OpenTag == <<"<", "no-split", ">">>
CloseTag == <<"<", "/no-split", ">">>
Whitespace == {" ", "\n"}

\* What the LLM streams: characters and whole tags.
Pieces == {<<"A">>, <<" ">>, <<"\n">>, <<"<">>, <<">">>, OpenTag, CloseTag}

\* The stream of the example: A\nB<no-split>C\nD</no-split>E\n
ExampleText ==
    <<<<"A">>, <<"\n">>, <<"B">>, OpenTag, <<"C">>, <<"\n">>, <<"D">>, CloseTag,
      <<"E">>, <<"\n">>>>

Texts == UNION {[1..n -> Pieces] : n \in 0..MaxText} \cup {ExampleText}

\* The characters of a sequence of pieces.
RECURSIVE Flat(_)
Flat(ps) == IF ps = <<>> THEN <<>> ELSE Head(ps) \o Flat(Tail(ps))

\* str.find: the first index of pat in buf, 0 when there is none (-1 in the
\* code, whose indices start at 0).
Find(buf, pat) ==
    LET I == {i \in 1..(Len(buf) - Len(pat) + 1) : SubSeq(buf, i, i + Len(pat) - 1) = pat}
    IN  IF I = {} THEN 0 ELSE CHOOSE i \in I : \A j \in I : i <= j

\* re.sub(r'<[^>]+>', '', text): from the left, a "<" followed by at least
\* one character other than ">" and then a ">" is removed with them.
RECURSIVE RemoveTags(_)
RemoveTags(text) ==
    IF text = <<>> THEN <<>>
    ELSE LET gt == Find(Tail(text), <<">">>)
         IN  IF Head(text) = "<" /\ gt >= 2
             THEN RemoveTags(SubSeq(text, gt + 2, Len(text)))
             ELSE <<Head(text)>> \o RemoveTags(Tail(text))

\* str.strip
RECURSIVE Strip(_)
Strip(text) ==
    IF text = <<>> THEN <<>>
    ELSE IF Head(text) \in Whitespace THEN Strip(Tail(text))
    ELSE IF Last(text) \in Whitespace THEN Strip(Front(text))
    ELSE text

\* Mutant of _emit: the tags stay in.
EmitKeepsTags(text) == Strip(text)

\* _emit, lines 279-281; <<>> is None.
_emit(text) == Strip(RemoveTags(text))

\* `seg = _emit(...)`, `if seg: yield seg`
YieldSeg(out, text) == IF _emit(text) # <<>> THEN Append(out, _emit(text)) ELSE out

\* str.split("\n")
RECURSIVE SplitLines(_)
SplitLines(text) ==
    LET nl == Find(text, <<"\n">>)
    IN  IF nl = 0 THEN <<text>>
        ELSE <<SubSeq(text, 1, nl - 1)>> \o SplitLines(SubSeq(text, nl + 1, Len(text)))

\* `for line in ...: seg = _emit(line) ...`
RECURSIVE YieldLines(_, _)
YieldLines(out, lines) ==
    IF lines = <<>> THEN out ELSE YieldLines(YieldSeg(out, Head(lines)), Tail(lines))

\* Mutant of the loop: the closing tag ends the region only at the end of
\* the stream.
RECURSIVE WhileTrueNoClose(_)
WhileTrueNoClose(st) ==
    LET buf == st.buffer
        nl == Find(buf, <<"\n">>)
        ns == Find(buf, OpenTag)
    IN  IF st.in_no_split \/ (nl = 0 /\ ns = 0) THEN st
        ELSE IF ns = 0 \/ (nl # 0 /\ nl < ns)
        THEN WhileTrueNoClose([st EXCEPT !.out = YieldSeg(@, SubSeq(buf, 1, nl - 1)),
                                         !.buffer = SubSeq(buf, nl + 1, Len(buf))])
        ELSE WhileTrueNoClose([st EXCEPT !.out = YieldLines(@, SplitLines(SubSeq(buf, 1, ns - 1))),
                                         !.buffer = SubSeq(buf, ns + Len(OpenTag), Len(buf)),
                                         !.in_no_split = TRUE])

\* Lines 295-321: the `while True` loop over the buffer.
RECURSIVE WhileTrue(_)
WhileTrue(st) ==
    LET buf == st.buffer
        nl == Find(buf, <<"\n">>)
        ns == Find(buf, OpenTag)
        end == Find(buf, CloseTag)
    IN  IF ~st.in_no_split
        THEN IF nl = 0 /\ ns = 0 THEN st
             ELSE IF ns = 0 \/ (nl # 0 /\ nl < ns)
             THEN WhileTrue([st EXCEPT !.out = YieldSeg(@, SubSeq(buf, 1, nl - 1)),
                                       !.buffer = SubSeq(buf, nl + 1, Len(buf))])
             ELSE WhileTrue([st EXCEPT !.out = YieldLines(@, SplitLines(SubSeq(buf, 1, ns - 1))),
                                       !.buffer = SubSeq(buf, ns + Len(OpenTag), Len(buf)),
                                       !.in_no_split = TRUE])
        ELSE IF end = 0 THEN st
             ELSE WhileTrue([st EXCEPT !.out = YieldSeg(@, SubSeq(buf, 1, end - 1)),
                                       !.buffer = SubSeq(buf, end + Len(CloseTag), Len(buf)),
                                       !.in_no_split = FALSE])

\* Lines 286-294: the next on_chat_model_stream event of the llm node, with
\* a chunk of n pieces.
StreamChunk(n) ==
    /\ stream.pc = "stream"
    /\ n \in 1..Len(stream.text)
    /\ stream' = WhileTrue([stream EXCEPT
                      !.buffer = @ \o Flat(SubSeq(stream.text, 1, n)),
                      !.text = SubSeq(@, n + 1, Len(@))])

\* Lines 323-331: the events are over and the buffer is flushed.
StreamEnd ==
    /\ stream.pc = "stream"
    /\ stream.text = <<>>
    /\ stream' = [stream EXCEPT
                      !.pc = "done",
                      !.out = IF stream.in_no_split THEN YieldSeg(@, stream.buffer)
                              ELSE YieldLines(@, SplitLines(stream.buffer))]

InitStream ==
    /\ InitAgent
    /\ InitDispatcher
    /\ apscheduler = FALSE
    /\ InitMedia
    /\ InitTasks
    /\ InitCallers
    /\ save = IdleSave
    /\ boot = IdleBoot
    /\ \E text \in Texts :
          stream = [IdleStream EXCEPT !.pc = "stream", !.whole = text, !.text = text]

NextStream ==
    /\ \/ \E n \in 1..(MaxText + Len(ExampleText)) : StreamChunk(n)
       \/ StreamEnd
    /\ UNCHANGED <<save, boot, timeVars, handleVars>>
    /\ UNCHANGED <<agentVars, dispVars, obsVars, mediaVars, taskVars, callVars>>

SpecStream == InitStream /\ [][NextStream]_vars

\* The lines and regions of a whole text: before each <no-split> the lines,
\* then the text up to the matching </no-split> (to the end of the text when
\* there is none), then the lines and regions of what follows.
RECURSIVE LinesAndRegions(_)
LinesAndRegions(text) ==
    LET ns == Find(text, OpenTag)
        rest == SubSeq(text, ns + Len(OpenTag), Len(text))
        end == Find(rest, CloseTag)
    IN  IF ns = 0 THEN SplitLines(text)
        ELSE SplitLines(SubSeq(text, 1, ns - 1)) \o
             (IF end = 0 THEN <<rest>>
              ELSE <<SubSeq(rest, 1, end - 1)>> \o
                   LinesAndRegions(SubSeq(rest, end + Len(CloseTag), Len(rest))))

\* A text with something left in it once its tags and the whitespace around
\* it are taken away.
HasContent(text) == \E i \in 1..Len(RemoveTags(text)) : RemoveTags(text)[i] \notin Whitespace

NewlinesOf(text) == Cardinality({i \in 1..Len(text) : text[i] = "\n"})

\* C17: output segmentation.  For every streamed text and every way of
\* cutting it into chunks, the segments yielded by the end of the stream are,
\* in order, the lines outside the <no-split> regions and the regions, each
\* one cleaned by _emit and left out when nothing remains of it; a region
\* comes out as one segment; and the stream A\nB<no-split>C\nD</no-split>E\n
\* yields exactly A, B, C\nD, E.
C17_Segmentation ==
    stream.pc = "done" =>
        LET expected == SelectSeq(LinesAndRegions(Flat(stream.whole)), HasContent)
        IN  /\ Len(stream.out) = Len(expected)
            /\ \A i \in 1..Len(expected) : stream.out[i] = _emit(expected[i])
            /\ stream.whole = ExampleText =>
                   stream.out = <<<<"A">>, <<"B">>, <<"C", "\n", "D">>, <<"E">>>>

\* C17 as first stated: every region comes out with all of its newlines.
C17_NewlinesPreserved ==
    stream.pc = "done" =>
        LET expected == SelectSeq(LinesAndRegions(Flat(stream.whole)), HasContent)
        IN  /\ Len(stream.out) = Len(expected)
            /\ \A i \in 1..Len(expected) :
                   NewlinesOf(stream.out[i]) = NewlinesOf(expected[i])

\* The example stream has been split, and so has a text with a line before a
\* closed region that keeps its newline.
C17_Witness ==
    /\ stream.pc = "done"
    /\ stream.whole = ExampleText
    /\ Len(stream.out) = 4
    /\ NewlinesOf(stream.out[3]) = 1

\* C18: tag stripping.  Every yielded segment has a first and a last
\* character that are not whitespace, and holds no "<" followed by one or
\* more characters other than ">" and then a ">"; and at the end of the
\* stream there are as many segments as lines and regions with something
\* left in them after the tags are removed.
HasTag(seg) ==
    \E i, j \in 1..Len(seg) :
        /\ j >= i + 2
        /\ seg[i] = "<"
        /\ seg[j] = ">"
        /\ \A k \in (i + 1)..(j - 1) : seg[k] # ">"

C18_TagStripping ==
    /\ \A i \in 1..Len(stream.out) :
           /\ stream.out[i] # <<>>
           /\ Head(stream.out[i]) \notin Whitespace
           /\ Last(stream.out[i]) \notin Whitespace
           /\ ~HasTag(stream.out[i])
    /\ stream.pc = "done" =>
           Len(stream.out) = Len(SelectSeq(LinesAndRegions(Flat(stream.whole)), HasContent))

\* A text with a tag-only line, a whitespace-only line and a line whose tag
\* and outer spaces were removed: one segment for three lines.
C18_Witness ==
    /\ stream.pc = "done"
    /\ stream.whole = <<OpenTag, <<"\n">>, <<" ">>, <<"\n">>, <<"A">>>>
    /\ stream.out = <<<<"A">>>>

(***************************************************************************)
(* SpecWorker: the worker loop with every failure it can meet and with the *)
(* inactivity timers, started with and without init_timeout, under         *)
(* messages from two sources, /clear_context and a clock.                  *)
(***************************************************************************)
MaxWorkerEnqueue == 2
MaxTicks == 3

\* The generator of a worker that failed at its reply_fn: suspended at its
\* yield until it is closed.
Abandoned ==
    /\ "worker" \in holders
    /\ \A w \in DOMAIN workers : workers[w].pc # "stream"

\* Time passes.
ClockTick ==
    /\ now' = now + timeout_summarize_seconds
    /\ UNCHANGED <<agentVars, dispVars, obsVars, mediaVars, taskVars, callVars,
                   unitVars, handleVars, run_date>>

Elapsed(id) == run_date[id] # None /\ run_date[id][1] <= now

InitWorker ==
    /\ InitAgent
    /\ InitDispatcher
    /\ apscheduler \in BOOLEAN
    /\ InitMedia
    /\ InitTasks
    /\ InitCallers
    /\ InitUnits

NextWorker ==
    \/ \E s \in Sources :
          counter < MaxWorkerEnqueue /\ Enqueue(PRIORITY_USER_MESSAGE, s)
    \/ \E w \in DOMAIN workers : Drain(w)
    \/ \E w \in DOMAIN workers : BeginGroup(w)
    \/ \E w \in DOMAIN workers : Reply(w)
    \/ \E w \in DOMAIN workers : EndGroup(w)
    \/ \E w \in DOMAIN workers : Post(w)
    \/ \E w \in DOMAIN workers : InvokeRaises(w)
    \/ \E w \in DOMAIN workers : ReplyRaises(w)
    \/ \E w \in DOMAIN workers : TimerRaises(w)
    \/ GeneratorClose
    \/ Elapsed("session_summarize") /\ TimerFire
    \/ SummarizeInvoke("timer")
    \/ _on_session_summarize
    \/ Elapsed("session_clear") /\ _on_session_clear
    \/ _cmd_clear_context
    \/ ~Abandoned /\ LlmNode(FALSE, 100, 1) /\ UNCHANGED <<dispVars, obsVars, envVars>>
    \/ ~Abandoned /\ finalize_node /\ UNCHANGED <<dispVars, obsVars, envVars>>
    \/ summarize_all_node(100, 10) /\ UNCHANGED <<dispVars, obsVars, envVars>>
    \/ now < MaxTicks * timeout_summarize_seconds /\ ClockTick

SpecWorker == InitWorker /\ [][NextWorker]_vars

\* C19: worker failure containment.  Whichever step of the worker loop
\* raises (the LLM invocation, the reply_fn, the timers), the worker task
\* ends in its handler with processing false and current_source null, they
\* stay so until the next Enqueue, and that Enqueue creates a new worker.
C19_FailureStep ==
    /\ \A w \in DOMAIN workers' : workers'[w].pc # "escaped"
    /\ (workers' # <<>> /\ Last(workers').pc = "failed") =>
           (processing' = FALSE /\ current_source' = Null)
    /\ (workers # <<>> /\ Last(workers).pc = "failed" /\ counter' # counter) =>
           /\ Len(workers') = Len(workers) + 1
           /\ Last(workers').pc = "start"
           /\ processing' = TRUE

C19_FailureContainment == [][C19_FailureStep]_vars

\* The reply_fn of the first worker raised; the next Enqueue has created a
\* second worker while the generator of the first is still open.
C19_Witness ==
    /\ Len(workers) = 2
    /\ workers[1].pc = "failed"
    /\ workers[2].pc = "start"
    /\ Abandoned

\* C20: inactivity timers after a drain.  When the worker leaves the last
\* group of its batch for the timers: with _apscheduler set and a non-empty
\* history, session_summarize is pending afterwards with the run date now +
\* timeout_summarize_seconds, whatever was pending before, and session_clear
\* is not pending; otherwise the pending jobs and their run dates are as
\* they were.
C20_PostStep ==
    \A w \in DOMAIN workers :
        (workers[w].pc = "post" /\ workers'[w].pc = "start") =>
            IF apscheduler /\ history # <<>>
            THEN /\ jobs' = {"session_summarize"}
                 /\ run_date' = [session_summarize |-> Some(now + timeout_summarize_seconds),
                                 session_clear |-> None]
            ELSE /\ jobs' = jobs
                 /\ run_date' = run_date

C20_InactivityTimers == [][C20_PostStep]_vars

\* Two workers have gone through the timers, the second one after the clock
\* moved: session_summarize is due timeout_summarize_seconds from now and
\* session_clear is not pending.
C20_Witness ==
    /\ now = timeout_summarize_seconds
    /\ Len(workers) = 2
    /\ workers[1].pc = "done"
    /\ workers[2].pc = "start"
    /\ workers[2].gi = 2
    /\ history # <<>>
    /\ jobs = {"session_summarize"}
    /\ run_date["session_summarize"] = Some(now + timeout_summarize_seconds)
    /\ run_date["session_clear"] = None

(***************************************************************************)
(* commands.py: the command dispatcher.  A text is a sequence of pieces:   *)
(* "/", a space, and words that stand for their letters.                   *)
(***************************************************************************)
ROLE_USER == 0
ROLE_DEVELOPER == 1
ROLE_ADMIN == 2

MaxCommandLen == 3
MaxCommands == 1

\* _ROLE_MAP.get(role_name, ROLE_USER)
_ROLE_MAP(role_name) ==
    CASE role_name = "admin" -> ROLE_ADMIN
      [] role_name = "developer" -> ROLE_DEVELOPER
      [] OTHER -> ROLE_USER

\* load_permissions, lines 29-33: the sections in the order of the file,
\* `result[str(uid)] = level` for each id of each: the last section that
\* lists an id gives its level.
RECURSIVE load_permissions(_)
load_permissions(data) ==
    IF data = <<>> THEN <<>>
    ELSE LET before == load_permissions(Front(data))
             section == Last(data)
             listed == Range(section.ids)
         IN  [u \in DOMAIN before \cup listed |->
                 IF u \in listed THEN _ROLE_MAP(section.role_name) ELSE before[u]]

Permissions == load_permissions(PermissionsFile)
UserIds == {"111", "222", "999"}

\* load_permissions().get(user_id, ROLE_USER)
get_role(user_id) ==
    IF user_id \in DOMAIN load_permissions(perms.file)
    THEN load_permissions(perms.file)[user_id] ELSE ROLE_USER

\* The registry filled by the @_register decorators: name -> min_role.
DeveloperCommands == {"help", "token", "raw", "status", "tasks", "context", "prompt", "log"}
AdminCommands == {"reload", "summarize", "clear_context"}
_COMMANDS ==
    [name \in DeveloperCommands \cup AdminCommands |->
        IF name \in AdminCommands THEN ROLE_ADMIN ELSE ROLE_DEVELOPER]

CommandPieces == {"/", " ", "help", "reload", "summarize", "clear_context", "config"}
\* Any text of up to MaxCommandLen pieces, with and without a leading "/".
CommandTexts ==
    LET short == UNION {[1..n -> CommandPieces] : n \in 0..MaxCommandLen}
    IN  short \cup {<<"/">> \o t : t \in short}

\* The string of a sequence of pieces.
RECURSIVE Join(_)
Join(ps) == IF ps = <<>> THEN "" ELSE Head(ps) \o Join(Tail(ps))

RECURSIVE SkipSpace(_)
SkipSpace(ps) ==
    IF ps # <<>> /\ Head(ps) \in Whitespace THEN SkipSpace(Tail(ps)) ELSE ps

\* The pieces up to the first whitespace.
RECURSIVE FirstWord(_)
FirstWord(ps) ==
    IF ps = <<>> \/ Head(ps) \in Whitespace THEN <<>>
    ELSE <<Head(ps)>> \o FirstWord(Tail(ps))

\* text[1:].split(None, 1): no part, the name, or the name and the rest.
SplitOnce(text) ==
    LET a == SkipSpace(SubSeq(text, 2, Len(text)))
        word == FirstWord(a)
        rest == SkipSpace(SubSeq(a, Len(word) + 1, Len(a)))
    IN  IF a = <<>> THEN <<>>
        ELSE IF rest = <<>> THEN <<word>>
        ELSE <<word, rest>>

\* The replies of lines 61 and 65, and of a handler.
UnknownReply(cmd_name) == "unknown command: /" \o cmd_name
DeniedReply == "permission denied"
HandlerReply(cmd_name) == "reply of " \o cmd_name

\* The call of handle_command is on record.
Outcome(user_id, text, result, reply, handler) ==
    /\ command' = [n |-> command.n + 1, user_id |-> user_id, text |-> text,
                   result |-> result, reply |-> reply, handler |-> handler]
    /\ UNCHANGED perms

\* Nothing but the record of the call changes.
NoEffect ==
    UNCHANGED <<agentVars, graph, dispVars, obsVars, mediaVars, taskVars, callVars,
                unitVars, timeVars>>

\* The handlers, lines 73-213.  The developer commands only read; /reload
\* config drops the graph, /clear_context empties the history, /summarize
\* starts an invocation (and waits for the agent lock).
RunHandler(cmd_name, args) ==
    CASE cmd_name = "reload" /\ Join(Strip(args)) = "config" ->
            /\ graph' = FALSE
            /\ UNCHANGED <<agentVars, dispVars, obsVars, mediaVars, taskVars, callVars,
                           unitVars, timeVars>>
      [] cmd_name = "clear_context" ->
            /\ clear_history
            /\ UNCHANGED <<holders, run, current_token_usage, graph, dispVars, enq,
                           llmLog, sent, lastReturn, mediaVars, taskVars, callVars,
                           unitVars, timeVars>>
      [] cmd_name = "summarize" ->
            /\ callers.cmd = "idle"
            /\ AgentAcquire("cmd", "session_timeout", "", <<>>, <<>>, <<>>)
            /\ callers' = [callers EXCEPT !.cmd = "run"]
            /\ UNCHANGED <<dispVars, enq, sent, mediaVars, taskVars, unitVars, timeVars>>
      [] OTHER -> NoEffect

\* handle_command, lines 51-68.
handle_command(user_id, text) ==
    LET role == get_role(user_id)
        parts == SplitOnce(text)
        cmd_name == Join(parts[1])
        args == IF Len(parts) > 1 THEN parts[2] ELSE <<>>
    IN  IF text = <<>> \/ Head(text) # "/" \/ role = ROLE_USER
        THEN Outcome(user_id, text, "False", Null, Null) /\ NoEffect
        ELSE IF parts = <<>>
        THEN Outcome(user_id, text, "IndexError", Null, Null) /\ NoEffect
        ELSE IF cmd_name \notin DOMAIN _COMMANDS
        THEN Outcome(user_id, text, "True", UnknownReply(cmd_name), Null) /\ NoEffect
        ELSE IF role < _COMMANDS[cmd_name]
        THEN Outcome(user_id, text, "True", DeniedReply, Null) /\ NoEffect
        ELSE /\ Outcome(user_id, text, "True", HandlerReply(cmd_name), cmd_name)
             /\ RunHandler(cmd_name, args)

(***************************************************************************)
(* SpecCommands: one command from any of three callers with any text,      *)
(* at any moment of the worker's processing of a message, over a store     *)
(* with one task.                                                          *)
(***************************************************************************)
NextCommands ==
    \/ \E user_id \in UserIds, text \in CommandTexts :
          command.n < MaxCommands /\ handle_command(user_id, text)
    \/ counter < 1 /\ Enqueue(PRIORITY_USER_MESSAGE, "private_2")
    \/ \E w \in DOMAIN workers : Drain(w)
    \/ \E w \in DOMAIN workers : BeginGroup(w)
    \/ \E w \in DOMAIN workers : Reply(w)
    \/ \E w \in DOMAIN workers : EndGroup(w)
    \/ \E w \in DOMAIN workers : Post(w)
    \/ _cmd_summarize
    \/ LlmNode(FALSE, 100, 1) /\ UNCHANGED <<dispVars, obsVars, envVars>>
    \/ finalize_node /\ UNCHANGED <<dispVars, obsVars, envVars>>
    \/ summarize_all_node(100, 10) /\ UNCHANGED <<dispVars, obsVars, envVars>>

SpecCommands == InitStored /\ [][NextCommands]_vars

\* The command name of a text: what follows the "/" up to the next
\* whitespace; empty when nothing follows.
NameOf(text) == IF SplitOnce(text) = <<>> THEN "" ELSE Join(SplitOnce(text)[1])

\* A text that starts with "/" from a caller with a role above USER.
Privileged(c) ==
    /\ c.text # <<>>
    /\ Head(c.text) = "/"
    /\ get_role(c.user_id) # ROLE_USER

GateStep(names) ==
    command' # command =>
        LET c == command'
            role == get_role(c.user_id)
            name == NameOf(c.text)
            same == /\ history' = history
                    /\ graph' = graph
                    /\ tasks' = tasks
        IN  /\ c.handler # Null => role >= _COMMANDS[c.handler]
            /\ (Privileged(c) /\ name \in DOMAIN _COMMANDS /\ role < _COMMANDS[name]) =>
                   (c.result = "True" /\ c.reply = DeniedReply /\ same)
            /\ (Privileged(c) /\ name \in names /\ name \notin DOMAIN _COMMANDS) =>
                   (c.result = "True" /\ c.reply = UnknownReply(name) /\ same)

\* C21: command role gate.  For every caller and text, a handler runs only
\* for a caller whose role is at least the command's minimum role; a caller
\* with a role above USER and below the minimum is answered with the
\* permission reply, a name that is not registered with the unknown-command
\* reply, and in both cases the history, the graph handle and the task
\* store are as before.
C21_RoleGate == [][GateStep({NameOf(t) : t \in CommandTexts})]_vars

\* The same for the texts that have a name after the "/".
C21_NamedCommands == [][GateStep({NameOf(t) : t \in CommandTexts} \ {""})]_vars

(***************************************************************************)
(* SpecTools: create_task called without a source by the tools node of a   *)
(* worker's graph run, with messages from two sources.                     *)
(***************************************************************************)
MaxToolEnqueue == 2
MaxToolCreates == 2

\* scheduler.get_current_source, lines 24-28.
get_current_source ==
    IF current_source = Null THEN None
    ELSE Some(CHOOSE d \in SourceDicts : SourceKey(d) = current_source)

\* The tools node runs create_task for a call of the LLM's message.
ToolCreateTask(a, name) ==
    /\ run.node = "tools"
    /\ CreateCall(a, name, None)

NextTools ==
    \/ \E s \in Sources :
          counter < MaxToolEnqueue /\ Enqueue(PRIORITY_USER_MESSAGE, s)
    \/ \E w \in DOMAIN workers : Drain(w)
    \/ \E w \in DOMAIN workers : BeginGroup(w)
    \/ \E w \in DOMAIN workers : Reply(w)
    \/ \E w \in DOMAIN workers : EndGroup(w)
    \/ \E w \in DOMAIN workers : Post(w)
    \/ (\E tool_calls \in BOOLEAN :
           /\ tool_calls => run.tools < MaxTools
           /\ LlmNode(tool_calls, 100, 1))
          /\ UNCHANGED <<dispVars, obsVars, envVars>>
    \/ \E a \in TaskArgs :
          nextTaskId <= MaxToolCreates /\ ToolCreateTask(a, "a")
    \/ ToolsNode /\ UNCHANGED <<dispVars, obsVars, envVars>>
    \/ finalize_node /\ UNCHANGED <<dispVars, obsVars, envVars>>

SpecTools == Init /\ [][NextTools]_vars

\* C22: default task source.  A task created without a source by a tool
\* call of the turn for the group with source key S is stored with the type
\* and id of S, the dispatcher's current_source at that moment.
C22_CreateStep ==
    (nextTaskId' # nextTaskId /\ run.node = "tools" /\ run.by = "worker") =>
        /\ get_current_source # None
        /\ Last(tasks').source = get_current_source

C22_DefaultSource == [][C22_CreateStep]_vars

\* A graph run that made a summary call comes to the end of _invoke.
SummarizedReturn ==
    /\ run.node = "end"
    /\ run'.node = "idle"
    /\ run.summary # None

\* C23: token accounting on summarization.  When an invocation whose graph
\* run executed summarize or summarize_all returns, current_token_usage is
\* its value before the invocation minus the summary call's input tokens
\* plus the summary call's output tokens.
C23_ReturnStep ==
    SummarizedReturn =>
        current_token_usage' =
            run.usage_before - run.summary[1].input_tokens + run.summary[1].output_tokens

C23_TokenAccounting == [][C23_ReturnStep]_vars

\* The same for the runs whose history does not end with an assistant
\* message: session_timeout, and user_message over an empty prior history.
C23_WithoutReply ==
    [][(SummarizedReturn /\ (run.reason = "session_timeout" \/ LastAI(history) = 0))
          => C23_ReturnStep]_vars

\* C24: agent-lock discipline.  While a task's invocation holds the agent
\* lock, the history, current_token_usage and the graph handle change only
\* by a step of that invocation: no clear_history and no /reload takes
\* effect in between.
C24_LockStep ==
    (/\ holders # {}
     /\ \/ history' # history
        \/ current_token_usage' # current_token_usage
        \/ graph' # graph)
        => run' # run

C24_LockDiscipline == [][C24_LockStep]_vars

(***************************************************************************)
(* SpecRouting: the dispatcher under transport messages of any priority    *)
(* from two sources, with answers of one or two segments and an LLM that   *)
(* may fail.                                                               *)
(***************************************************************************)
MaxRouteSegs == 2

NextRouting ==
    \/ \E p \in Priorities, s \in Sources : Enqueue(p, s)
    \/ \E w \in DOMAIN workers : Drain(w)
    \/ \E w \in DOMAIN workers : BeginGroup(w)
    \/ \E w \in DOMAIN workers : Reply(w)
    \/ \E w \in DOMAIN workers : EndGroup(w)
    \/ \E w \in DOMAIN workers : Post(w)
    \/ \E w \in DOMAIN workers : InvokeRaises(w)
    \/ \E k \in 1..MaxRouteSegs :
          LlmNode(FALSE, 100, k) /\ UNCHANGED <<dispVars, obsVars, envVars>>
    \/ finalize_node /\ UNCHANGED <<dispVars, obsVars, envVars>>

SpecRouting == Init /\ [][NextRouting]_vars

\* The segments handed to a reply_fn during invocation i, in the order of
\* the calls.
SegmentsOf(i) == SelectSeq(sent, LAMBDA e : e.invocation = i)

\* C25: every segment a group's invocation has yielded was handed exactly
\* once, in the order of the yields, to the reply_fn of the last item of
\* that group, and to no other reply_fn.
C25_ReplyRouting ==
    /\ \A i \in DOMAIN llmLog :
          llmLog[i].by = "worker" =>
             \A k \in DOMAIN SegmentsOf(i) :
                /\ SegmentsOf(i)[k].seg = k
                /\ SegmentsOf(i)[k].reply_fn = Last(llmLog[i].items)
    /\ \A k \in DOMAIN sent :
          /\ sent[k].invocation \in DOMAIN llmLog
          /\ llmLog[sent[k].invocation].by = "worker"
    /\ run.by = "worker" => Len(SegmentsOf(Len(llmLog))) = run.yielded

\* Two groups were processed: one of two items whose answer had two
\* segments, and one of another source.
C25_Witness ==
    /\ run = IdleRun
    /\ \E i, j \in DOMAIN llmLog :
          /\ i # j
          /\ Len(llmLog[i].items) = 2
          /\ Len(SegmentsOf(i)) = 2
          /\ Len(SegmentsOf(j)) >= 1
          /\ SegmentsOf(i)[1].source_key # SegmentsOf(j)[1].source_key

\* The worker is at an await of the invocation: for the agent lock
\* ("invoke") or, inside _invoke, for the LLM, a tool or reply_fn ("stream").
WorkerAwaits(w) == workers[w].pc \in {"invoke", "stream"}

\* C26: wherever the worker awaits the agent lock, the LLM, a tool or a
\* send, it does not hold the dispatcher's mutex, and an Enqueue for any
\* priority and source can take its step at once, whoever holds the agent
\* lock; so no task holds the mutex while it waits for the agent lock.
C26_EnqueueNeverBlocks ==
    /\ \A w \in DOMAIN workers : WorkerAwaits(w) => ~workers[w].holds_lock
    /\ \A p \in Priorities, s \in Sources : ENABLED Enqueue(p, s)

\* The worker's invocation waits for the LLM and a message enqueued after
\* the worker's drain is in the queue.
C26_Witness ==
    /\ \E w \in DOMAIN workers : workers[w].pc = "stream"
    /\ run.by = "worker" /\ run.node = "llm"
    /\ queue # {}

(***************************************************************************)
(* SpecRoute: the graph under user messages of one source, one of them     *)
(* long, with an LLM that may call tools and reports its input tokens at   *)
(* the limit, over it, or not at all.                                      *)
(***************************************************************************)
MaxRouteEnqueue == 2
LongDoublings == 15

RECURSIVE Doubled(_, _)
Doubled(text, n) == IF n = 0 THEN text ELSE Doubled(text \o text, n - 1)

\* A message text of 32768 characters: more than four characters per token
\* of the limit.
LongText == Doubled("x", LongDoublings)

\* The input tokens the LLM reports: none (0), the limit, one more.
RouteTokens == {0, context_limit_tokens, context_limit_tokens + 1}

\* enqueue of a long message without media.
EnqueueLong(priority, source_key) ==
    /\ counter < MaxEnqueue
    /\ _enqueue_ready(priority, source_key, LongText, counter + 1, <<>>)
    /\ UNCHANGED <<agentVars, current_source, apscheduler, jobs, llmLog, sent,
                   lastReturn, clearedSince>>
    /\ UNCHANGED envVars

NextRoute ==
    \/ counter < MaxRouteEnqueue /\ Enqueue(PRIORITY_USER_MESSAGE, "private_2")
    \/ counter < MaxRouteEnqueue /\ EnqueueLong(PRIORITY_USER_MESSAGE, "private_2")
    \/ \E w \in DOMAIN workers : Drain(w)
    \/ \E w \in DOMAIN workers : BeginGroup(w)
    \/ \E w \in DOMAIN workers : Reply(w)
    \/ \E w \in DOMAIN workers : EndGroup(w)
    \/ \E w \in DOMAIN workers : Post(w)
    \/ (\E tool_calls \in BOOLEAN, input_tokens \in RouteTokens :
           /\ tool_calls => run.tools < MaxTools
           /\ LlmNode(tool_calls, input_tokens, 1))
          /\ UNCHANGED <<dispVars, obsVars, envVars>>
    \/ ToolsNode /\ UNCHANGED <<dispVars, obsVars, envVars>>
    \/ finalize_node /\ UNCHANGED <<dispVars, obsVars, envVars>>
    \/ summarize_node(100, 10) /\ UNCHANGED <<dispVars, obsVars, envVars>>

SpecRoute == Init /\ [][NextRoute]_vars

\* The steps of a user_message or scheduled_task graph run from node to
\* node, where over(messages) tells whether the generate step's input
\* tokens count as over the limit: the run starts at generate; a generate
\* step whose message has tool calls goes to tools, and tools back to
\* generate; one without goes to summarize when over, else to finalize;
\* summarize and finalize go to the end, and nothing follows the end.
RouteStep(over(_)) ==
    (run' # run /\ run'.node # run.node /\ run'.node # "idle"
       /\ run'.reason \in {"user_message", "scheduled_task"})
    => CASE run.node = "idle" -> run'.node = "llm"
         [] run.node = "llm" ->
               /\ Last(run'.messages).type = "ai"
               /\ run'.node = IF Last(run'.messages).tool_calls THEN "tools"
                              ELSE IF over(run'.messages) THEN "summarize"
                              ELSE "finalize"
         [] run.node = "tools" -> run'.node = "llm"
         [] run.node \in {"summarize", "finalize"} -> run'.node = "end"
         [] OTHER -> FALSE

\* The run returns only from the end.
ReturnStep == (run # IdleRun /\ run' = IdleRun) => run.node = "end"

ReportedOver(messages) == Last(messages).input_tokens > context_limit_tokens

CountedOver(messages) ==
    IF Last(messages).input_tokens # 0 THEN ReportedOver(messages)
    ELSE count_tokens_approximately(messages) > context_limit_tokens

\* C27 as stated: summarize is chosen iff the reported input tokens are
\* strictly greater than context_limit_tokens.
C27_ReportedTokens == [][RouteStep(ReportedOver) /\ ReturnStep]_vars

\* C27: post-generate routing, where the input tokens are the reported ones
\* or, when none or 0 are reported, the approximate token count of the
\* run's messages.
C27_PostGenerateRouting == [][RouteStep(CountedOver) /\ ReturnStep]_vars

\* A run that called a tool is at summarize after a generate step that
\* reported no input tokens.
C27_Witness ==
    /\ run.node = "summarize"
    /\ run.tools >= 1
    /\ Last(run.messages).input_tokens = 0

\* A step of a graph run for the reason complex_reschedule: its start, its
\* utility node, or its return.
UtilityRunStep ==
    /\ run' # run
    /\ run.reason = "complex_reschedule" \/ run'.reason = "complex_reschedule"

\* C28: no step of an invocation for the reason complex_reschedule changes
\* the history or current_token_usage, and when it returns the usage is the
\* one the invocation started with.
C28_UtilityStep ==
    UtilityRunStep =>
        /\ history' = history
        /\ current_token_usage' = current_token_usage
        /\ run' = IdleRun => current_token_usage' = run.usage_before

C28_UtilityLeavesState == [][C28_UtilityStep]_vars

\* A complex_reschedule invocation has returned over a history and a usage
\* left by an earlier turn.
C28_Witness ==
    /\ run = IdleRun
    /\ llmLog # <<>>
    /\ llmLog[Len(llmLog)].reason = "complex_reschedule"
    /\ \E t \in DOMAIN triggers : triggers[t].pc = "done"
    /\ history # <<>>
    /\ current_token_usage > 0

\* The summarize_all node of a session_timeout run whose messages, the
\* history at the start of the invocation, leave nothing to summarize.
SummarizeAllOnNothing ==
    /\ run.reason = "session_timeout"
    /\ run.node = "summarize_all"
    /\ run'.node = "end"
    /\ _safe_for_summary(run.messages) = <<>>

\* C29: a session_timeout invocation with nothing to summarize makes no
\* LLM call and leaves the history and current_token_usage unchanged.
C29_Step ==
    SummarizeAllOnNothing =>
        /\ run'.summary = None
        /\ history' = history
        /\ current_token_usage' = current_token_usage

C29_NothingToSummarize == [][C29_Step]_vars

(***************************************************************************)
(* SpecReschedule: the trigger workflow over a store of a complex_repeat   *)
(* task and a repeat task, with every shape of the reschedule result and   *)
(* with cancel_task.                                                       *)
(***************************************************************************)
MaxRescheduleFires == 2

\* _RescheduleOutput: a cancel, or a reschedule where each of trigger, name,
\* content and original_prompt is None or a new value.
RescheduleResults ==
    {[action |-> "cancel", trigger |-> None, name |-> None, content |-> None,
      original_prompt |-> None]}
    \cup [action : {"reschedule"},
          trigger : {None, Some(DateTrigger)},
          name : {None, Some("b")},
          content : {None, Some("c9")},
          original_prompt : {None, Some("q")}]

ComplexTask ==
    [StoredTask EXCEPT !.type = "complex_repeat", !.original_prompt = Some("p")]
OtherTask == [StoredTask EXCEPT !.task_id = 2, !.name = "b", !.content = "c2"]

\* tasks.json holds the two tasks and register has added the job of each.
InitReschedule ==
    /\ InitAgent
    /\ InitDispatcher
    /\ apscheduler = TRUE
    /\ InitMedia
    /\ tasks = <<ComplexTask, OtherTask>>
    /\ taskJobs = {[id |-> 1, trigger |-> CronTrigger], [id |-> 2, trigger |-> CronTrigger]}
    /\ nextTaskId = 3
    /\ today = 1
    /\ triggers = <<>>
    /\ InitCallers
    /\ InitUnits

NextReschedule ==
    \/ \E j \in taskJobs : Len(triggers) < MaxRescheduleFires /\ _on_trigger(j)
    \/ \E t \in DOMAIN triggers : TriggerInvoke(t)
    \/ \E t \in DOMAIN triggers : TriggerCollect(t)
    \/ \E t \in DOMAIN triggers : TriggerReturn(t)
    \/ \E t \in DOMAIN triggers : TriggerReply(t)
    \/ \E t \in DOMAIN triggers : RescheduleInvoke(t)
    \/ \E t \in DOMAIN triggers, result \in RescheduleResults : _reschedule(t, result)
    \/ \E task_id \in 1..2 : cancel_task(task_id, "")
    \/ GraphStepTasks

SpecReschedule == InitReschedule /\ [][NextReschedule]_vars

\* What a field of the target is after the update: the result's value, or
\* the stored one where the result has None.
Replaced(stored, val) == IF val # None THEN val[1] ELSE stored

\* C30: the step of _reschedule for a result with action "reschedule" whose
\* task is in the store replaces in that task exactly the fields trigger,
\* name, content and original_prompt that the result gives, leaves its
\* other fields, every other task and the length of the store as they are,
\* and leaves one job under the task's id, with the task's trigger.
C30_Step ==
    \A t \in DOMAIN triggers :
       (/\ triggers[t].pc = "utility"
        /\ triggers'[t].pc = "done"
        /\ triggers'[t].result[1].action = "reschedule"
        /\ FindBy(tasks, "task_id", triggers[t].task_id) # 0)
       => LET k == FindBy(tasks, "task_id", triggers[t].task_id)
              r == triggers'[t].result[1]
          IN  /\ Len(tasks') = Len(tasks)
              /\ \A i \in DOMAIN tasks : i # k => tasks'[i] = tasks[i]
              /\ tasks'[k] =
                    [tasks[k] EXCEPT
                        !.trigger = Replaced(@, r.trigger),
                        !.name = Replaced(@, r.name),
                        !.content = Replaced(@, r.content),
                        !.original_prompt =
                            IF r.original_prompt # None THEN r.original_prompt ELSE @]
              /\ {j \in taskJobs' : j.id = triggers[t].task_id}
                    = {[id |-> triggers[t].task_id, trigger |-> tasks'[k].trigger]}
              /\ {j \in taskJobs' : j.id # triggers[t].task_id}
                    = {j \in taskJobs : j.id # triggers[t].task_id}

C30_RescheduleFrame == [][C30_Step]_vars

\* A reschedule that gave a name and a trigger but no content was stored
\* next to the other task.
C30_Witness ==
    \E t \in DOMAIN triggers :
       /\ triggers[t].pc = "done"
       /\ triggers[t].found
       /\ triggers[t].result # None
       /\ triggers[t].result[1].action = "reschedule"
       /\ triggers[t].result[1].name = Some("b")
       /\ triggers[t].result[1].trigger = Some(DateTrigger)
       /\ triggers[t].result[1].content = None
       /\ Len(tasks) = 2
       /\ tasks[1].name = "b" /\ tasks[1].trigger = DateTrigger
       /\ tasks[1].content = "c1" /\ tasks[1].run_count = 1

(***************************************************************************)
(* SpecTimers: the worker and the two inactivity jobs under a clock, with  *)
(* /clear_context.  Jobs that are due fire in the order of their run       *)
(* dates: session_clear waits for a session_summarize that is due.  The    *)
(* timers follow the end of the last group without an await in between.    *)
(***************************************************************************)
MaxTimerEnqueue == 2
MaxTimerTicks == 4

InitTimers ==
    /\ InitAgent
    /\ InitDispatcher
    /\ apscheduler = TRUE
    /\ InitMedia
    /\ InitTasks
    /\ InitCallers
    /\ InitUnits

\* The worker is between the end of its last group and the timers, where the
\* code has no await: no other task runs there.
AtTimers == \E w \in DOMAIN workers : workers[w].pc = "post"

NextTimers ==
    \/ \E w \in DOMAIN workers : Post(w)
    \/ ~AtTimers /\ (counter < MaxTimerEnqueue /\ Enqueue(PRIORITY_USER_MESSAGE, "private_2"))
    \/ ~AtTimers /\ (\E w \in DOMAIN workers : Drain(w))
    \/ ~AtTimers /\ (\E w \in DOMAIN workers : BeginGroup(w))
    \/ ~AtTimers /\ (\E w \in DOMAIN workers : Reply(w))
    \/ ~AtTimers /\ (\E w \in DOMAIN workers : EndGroup(w))
    \/ ~AtTimers /\ (Elapsed("session_summarize") /\ TimerFire)
    \/ ~AtTimers /\ (SummarizeInvoke("timer"))
    \/ ~AtTimers /\ (_on_session_summarize)
    \/ ~AtTimers /\ (Elapsed("session_clear") /\ ~Elapsed("session_summarize") /\ _on_session_clear)
    \/ ~AtTimers /\ (_cmd_clear_context)
    \/ ~AtTimers /\ (LlmNode(FALSE, 100, 1) /\ UNCHANGED <<dispVars, obsVars, envVars>>)
    \/ ~AtTimers /\ (finalize_node /\ UNCHANGED <<dispVars, obsVars, envVars>>)
    \/ ~AtTimers /\ (summarize_all_node(100, 10) /\ UNCHANGED <<dispVars, obsVars, envVars>>)
    \/ ~AtTimers /\ (now < MaxTimerTicks * timeout_summarize_seconds /\ ClockTick)

SpecTimers == InitTimers /\ [][NextTimers]_vars

\* The job session_clear is added.
ClearScheduled == "session_clear" \in jobs' \ jobs

\* The job session_clear fires: _on_session_clear runs.
ClearFires ==
    /\ "session_clear" \in jobs \ jobs'
    /\ workers' = workers

\* _on_session_summarize comes to its end.
SummarizeRunCompletes == callers.timer = "run" /\ callers'.timer = "idle"

MaxSections == 3
MaxIds == 2

RoleNames == {"admin", "developer", "guest"}
ListedIds == {"111", "222"}

\* The id lists of a section: without a repeated id.
IdLists ==
    {ids \in UNION {[1..n -> ListedIds] : n \in 0..MaxIds} :
        \A i, j \in DOMAIN ids : i # j => ids[i] # ids[j]}

\* The files: a yaml mapping has each role name once.
PermissionFiles ==
    {data \in UNION {[1..n -> [role_name : RoleNames, ids : IdLists]] :
                        n \in 0..MaxSections} :
        \A i, j \in DOMAIN data : i # j => data[i].role_name # data[j].role_name}

InitPermissions ==
    /\ InitAgent
    /\ InitDispatcher
    /\ apscheduler = FALSE
    /\ InitMedia
    /\ InitTasks
    /\ command = NoCommand
    /\ callers = [timer |-> "idle", cmd |-> "idle", recovery |-> "idle",
                  loaded |-> <<>>, missed |-> {},
                  batch_done |-> FALSE, batch_kept |-> FALSE]
    /\ perms \in [file : PermissionFiles, loaded : {None}]
    /\ InitUnits

\* A call of load_permissions.
LoadPermissions ==
    /\ perms.loaded = None
    /\ perms' = [perms EXCEPT !.loaded = Some(load_permissions(perms.file))]
    /\ UNCHANGED <<agentVars, dispVars, obsVars, mediaVars, taskVars, callVars,
                   unitVars, timeVars, graph, command>>

NextPermissions == LoadPermissions

SpecPermissions == InitPermissions /\ [][NextPermissions]_vars

\* The ids the file lists under the role.
ListedUnder(data, role_name) ==
    UNION {Range(data[i].ids) : i \in {k \in DOMAIN data : data[k].role_name = role_name}}

\* C32: an id listed under both admin and developer is given the role
\* DEVELOPER by load_permissions, whichever section comes first.
C32_LowerRole ==
    perms.loaded # None =>
        \A u \in ListedUnder(perms.file, "admin") \cap ListedUnder(perms.file, "developer") :
            perms.loaded[1][u] = ROLE_DEVELOPER

(***************************************************************************)
(* SpecRescheduled: register over a store that holds a complex_repeat task *)
(* that ran on day 1 and was rescheduled then, to its cron trigger or to   *)
(* an ISO datetime, alone or after another task.                           *)
(***************************************************************************)
RescheduledTasks ==
    {[task_id |-> i, type |-> "complex_repeat", name |-> "b",
      content |-> "c" \o ToString(i), trigger |-> trigger,
      source |-> Some([type |-> "group", id |-> "1"]), run_count |-> 1,
      last_run |-> Some(1), max_runs |-> None, end_date |-> None,
      original_prompt |-> Some("p")] :
        i \in 1..MaxStored, trigger \in {CronTrigger, DateTrigger}}

RescheduledLists ==
    {<<t>> : t \in {u \in RescheduledTasks : u.task_id = 1}}
        \cup {p \in BootTasks \X RescheduledTasks : p[1].task_id = 1 /\ p[2].task_id = 2}

InitRescheduled ==
    /\ InitAgent
    /\ InitDispatcher
    /\ apscheduler = TRUE
    /\ InitMedia
    /\ InitCallers
    /\ tasks \in RescheduledLists
    /\ taskJobs = {}
    /\ nextTaskId = MaxStored + 1
    /\ today \in 1..MaxDay
    /\ triggers = <<>>
    /\ save = IdleSave
    /\ stream = IdleStream
    /\ \E slot \in 0..3 :
          \E created \in [DOMAIN tasks -> 0..TimeAt(today, slot)] :
              /\ \A i \in DOMAIN tasks :
                     /\ created[i] \in CreatedTimes(tasks[i], TimeAt(today, slot))
                     /\ tasks[i].last_run # None => LastRunTime(tasks[i]) < TimeAt(today, slot)
              /\ boot = [now |-> TimeAt(today, slot), created |-> created,
                         stored |-> tasks]

SpecRescheduled == InitRescheduled /\ [][NextRecover]_vars

\* The trigger of the stored complex_repeat task i came due after its last
\* run and before now.
CameDue(i) ==
    LET task == boot.stored[i]
    IN  /\ task.type = "complex_repeat"
        /\ task.last_run # None
        /\ IF IsCron(task.trigger)
           THEN get_next_fire_time(Some(LastRunTime(task)), boot.now) < boot.now
           ELSE LastRunTime(task) < TriggerTime(task) /\ TriggerTime(task) < boot.now

\* Once register has returned, the stored task i was reported to the agent
\* as missed and is still in the store.
RecoveredAndRetained(i) ==
    /\ RecoveryPrompts # {}
    /\ boot.stored[i].task_id \in callers.missed
    /\ \E k \in DOMAIN tasks : tasks[k] = boot.stored[i]

\* C33: a complex_repeat task whose trigger, cron or ISO datetime, came due
\* after its last run and before now is reported as missed at startup and
\* retained.
C33_RescheduledRecovered ==
    callers.recovery = "done" =>
        \A i \in DOMAIN boot.stored : CameDue(i) => RecoveredAndRetained(i)

\* The same for the tasks whose trigger is a cron expression.
C33_CronRecovered ==
    callers.recovery = "done" =>
        \A i \in DOMAIN boot.stored :
            (CameDue(i) /\ IsCron(boot.stored[i].trigger)) => RecoveredAndRetained(i)

(***************************************************************************)
(* SpecRaise: graph runs of every reason (a dispatcher batch, /summarize,  *)
(* the fire of a complex_repeat task and its reschedule call), with an LLM *)
(* that may call a tool, exceed the context limit, or raise at any node.   *)
(***************************************************************************)
MaxRaiseEnqueue == 1
MaxRaiseFires == 1

\* The LLM raises during /summarize: the exception leaves _invoke and the
\* command handler.
CmdSummarizeRaises ==
    /\ callers.cmd = "run"
    /\ AgentRaise("cmd")
    /\ callers' = [callers EXCEPT !.cmd = "done"]
    /\ UNCHANGED <<queue, counter, processing, current_source, workers, apscheduler,
                   jobs, enq, llmLog, sent, mediaVars, unitVars, handleVars, timeVars, taskVars>>

\* The LLM raises during the turn of a fire or during the reschedule call:
\* the exception leaves agent.invoke / invoke_bare and _on_trigger.
TriggerRaises(t) ==
    /\ triggers[t].pc \in {"collect", "utility"}
    /\ AgentRaise("trigger")
    /\ triggers' = [triggers EXCEPT ![t].pc = "failed"]
    /\ UNCHANGED <<tasks, taskJobs, nextTaskId, today>>
    /\ UNCHANGED <<queue, counter, processing, current_source, workers, apscheduler,
                   jobs, enq, llmLog, sent, mediaVars, unitVars, handleVars, timeVars, callVars>>

NextRaise ==
    \/ counter < MaxRaiseEnqueue /\ Enqueue(PRIORITY_USER_MESSAGE, "private_2")
    \/ \E w \in DOMAIN workers : Drain(w)
    \/ \E w \in DOMAIN workers : BeginGroup(w)
    \/ \E w \in DOMAIN workers : Reply(w)
    \/ \E w \in DOMAIN workers : EndGroup(w)
    \/ \E w \in DOMAIN workers : Post(w)
    \/ \E w \in DOMAIN workers : InvokeRaises(w)
    \/ callers.cmd = "idle" /\ SummarizeInvoke("cmd")
    \/ _cmd_summarize
    \/ CmdSummarizeRaises
    \/ \E j \in taskJobs : Len(triggers) < MaxRaiseFires /\ j.id = 1 /\ _on_trigger(j)
    \/ \E t \in DOMAIN triggers : TriggerInvoke(t)
    \/ \E t \in DOMAIN triggers : TriggerCollect(t)
    \/ \E t \in DOMAIN triggers : TriggerReturn(t)
    \/ \E t \in DOMAIN triggers : TriggerReply(t)
    \/ \E t \in DOMAIN triggers : RescheduleInvoke(t)
    \/ \E t \in DOMAIN triggers : TriggerRaises(t)
    \/ (\E tool_calls \in BOOLEAN, input_tokens \in ReportedTokens :
           /\ tool_calls => run.tools < MaxTools
           /\ LlmNode(tool_calls, input_tokens, 1))
          /\ UNCHANGED <<dispVars, obsVars, envVars>>
    \/ ToolsNode /\ UNCHANGED <<dispVars, obsVars, envVars>>
    \/ finalize_node /\ UNCHANGED <<dispVars, obsVars, envVars>>
    \/ summarize_node(100, 10) /\ UNCHANGED <<dispVars, obsVars, envVars>>
    \/ summarize_all_node(100, 10) /\ UNCHANGED <<dispVars, obsVars, envVars>>
    \/ utility_node /\ UNCHANGED <<dispVars, obsVars, envVars>>

SpecRaise == InitReschedule /\ [][NextRaise]_vars

\* The history as it stood when the running invocation built its initial
\* message list: the list itself for session_timeout, the list without the
\* appended HumanMessage for a turn, and the history of the last return for
\* the reschedule call (no clear_history runs in SpecRaise).
HistoryAtStart ==
    LET entry == llmLog[Len(llmLog)]
    IN  IF entry.reason = "session_timeout" THEN entry.messages
        ELSE IF entry.reason = "complex_reschedule" THEN entry.prev
        ELSE SubSeq(entry.messages, 1, Len(entry.messages) - 1)

\* A step in which the LLM call of the running node raises.
RaiseStep ==
    /\ run.node \in {"llm", "summarize", "summarize_all", "utility"}
    /\ run'.node = "idle"

\* The caller the exception has reached.
Propagated(c) ==
    CASE c = "worker" -> \E w \in DOMAIN workers : workers[w].pc # "failed" /\ workers'[w].pc = "failed"
      [] c = "cmd" -> callers.cmd = "run" /\ callers'.cmd = "done"
      [] c = "trigger" -> \E t \in DOMAIN triggers : triggers[t].pc # "failed" /\ triggers'[t].pc = "failed"

\* C34: when the LLM raises at a node of a graph run (llm, llm after tools,
\* summarize, summarize_all, utility), the error reaches the caller, the
\* agent lock is released, and history and current_token_usage are what
\* they were when the invocation started.
C34_Step ==
    RaiseStep =>
        /\ Propagated(run.by)
        /\ holders' = {}
        /\ history' = HistoryAtStart
        /\ current_token_usage' = run.usage_before

C34_RaiseLeavesState == [][C34_Step]_vars

\* A run that called a tool with a non-empty history has failed at its
\* second generate, and the reschedule call of a fire has failed too.
C34_Witness ==
    /\ run.node = "idle"
    /\ \E w \in DOMAIN workers : workers[w].pc = "failed"
    /\ \E t \in DOMAIN triggers : triggers[t].pc = "failed" /\ triggers[t].result = None
    /\ \E i \in DOMAIN llmLog : llmLog[i].reason = "complex_reschedule"
    /\ history # <<>>

(***************************************************************************)
(* Claims about the worker's life cycle, checked under SpecWorker.         *)
(***************************************************************************)
\* The worker loops that have been spawned and have neither returned nor
\* left through the handler.
LiveWorkers == {w \in DOMAIN workers : workers[w].pc \notin {"done", "failed"}}

\* C35: at most one dispatcher worker is active at any time, and
\* _processing is true whenever a worker is active or has been spawned and
\* has not yet exited.
C35_AtMostOneWorker ==
    /\ Cardinality(LiveWorkers) <= 1
    /\ LiveWorkers # {} => processing

\* A worker has failed and the worker spawned by a later Enqueue is running
\* its batch.
C35_Witness ==
    /\ \E w \in DOMAIN workers : workers[w].pc = "failed"
    /\ \E w \in DOMAIN workers : workers[w].pc = "stream"
    /\ processing

(***************************************************************************)
(* SpecWake: the dispatcher with an LLM that always returns and reply_fns  *)
(* that never raise, next to one /summarize that competes for the agent    *)
(* lock.  Every task of the event loop that can run is eventually run:     *)
(* the worker, the graph run of the lock holder, and the command.          *)
(***************************************************************************)
MaxWakeEnqueue == 3

WorkerStep ==
    \E w \in DOMAIN workers :
        Drain(w) \/ BeginGroup(w) \/ Reply(w) \/ EndGroup(w) \/ Post(w)

GraphStepWake ==
    /\ \/ \E k \in 1..MaxSegs : LlmNode(FALSE, 100, k)
       \/ finalize_node
       \/ summarize_all_node(100, 10)
    /\ UNCHANGED <<dispVars, obsVars, envVars>>

NextWake ==
    \/ \E s \in Sources : counter < MaxWakeEnqueue /\ Enqueue(PRIORITY_USER_MESSAGE, s)
    \/ \E w \in DOMAIN workers : Drain(w)
    \/ \E w \in DOMAIN workers : BeginGroup(w)
    \/ \E w \in DOMAIN workers : Reply(w)
    \/ \E w \in DOMAIN workers : EndGroup(w)
    \/ \E w \in DOMAIN workers : Post(w)
    \/ callers.cmd = "idle" /\ SummarizeInvoke("cmd")
    \/ _cmd_summarize
    \/ GraphStepWake

SpecWake ==
    /\ Init
    /\ [][NextWake]_vars
    /\ WF_vars(WorkerStep)
    /\ WF_vars(GraphStepWake)
    /\ WF_vars(_cmd_summarize)

\* The invocations of the worker whose prompt includes the item with
\* arrival sequence c.
InvocationsOf(c) ==
    {i \in DOMAIN llmLog :
        /\ llmLog[i].by = "worker"
        /\ \E k \in DOMAIN llmLog[i].items : llmLog[i].items[k] = c}

\* C36: whenever the dispatcher mutex is free and the queue is non-empty a
\* worker is running; every enqueued item is eventually drained and is
\* included in exactly one LLM invocation, never in two.
C36_NoLostWakeup ==
    /\ [](SchedulerLockFree /\ queue # {} => processing /\ LiveWorkers # {})
    /\ [](\A c \in 1..MaxWakeEnqueue : Cardinality(InvocationsOf(c)) <= 1)
    /\ \A c \in 1..MaxWakeEnqueue :
           (counter >= c) ~>
               (/\ \A it \in queue : it.counter # c
                /\ Cardinality(InvocationsOf(c)) = 1)

\* A worker has found the queue empty and exited, and the item enqueued
\* after that has reached the LLM through a second worker.
C36_Witness ==
    /\ Len(workers) >= 2
    /\ workers[1].pc = "done"
    /\ InvocationsOf(counter) # {}
    /\ \E i \in InvocationsOf(counter) : \A j \in InvocationsOf(1) : j < i

(***************************************************************************)
(* SpecFailure: the dispatcher under four messages of two priorities from  *)
(* two sources, with invocations and reply_fns that may raise.             *)
(***************************************************************************)
MaxFailEnqueue == 4

EnqueueItem(priority, source_key) ==
    /\ _enqueue_ready(priority, source_key, "m" \o ToString(counter + 1),
                      counter + 1, <<>>)
    /\ UNCHANGED <<agentVars, current_source, apscheduler, jobs, llmLog, sent,
                   lastReturn, clearedSince>>
    /\ UNCHANGED envVars

NextFailure ==
    \/ \E p \in {PRIORITY_SCHEDULED, PRIORITY_USER_MESSAGE}, s \in Sources :
          counter < MaxFailEnqueue /\ EnqueueItem(p, s)
    \/ \E w \in DOMAIN workers : Drain(w)
    \/ \E w \in DOMAIN workers : BeginGroup(w)
    \/ \E w \in DOMAIN workers : Reply(w)
    \/ \E w \in DOMAIN workers : EndGroup(w)
    \/ \E w \in DOMAIN workers : Post(w)
    \/ \E w \in DOMAIN workers : InvokeRaises(w)
    \/ \E w \in DOMAIN workers : ReplyRaises(w)
    \/ GeneratorClose
    \/ ~Abandoned /\ GraphStepPlain

SpecFailure == Init /\ [][NextFailure]_vars

FailedWorkers == {w \in DOMAIN workers : workers[w].pc = "failed"}

\* The items of the batches of failed workers that had reached no
\* invocation.
Discarded ==
    {c \in UNION {BatchCounters(w) : w \in FailedWorkers} : InvocationsOf(c) = {}}

\* The arrival sequences of a batch in the order of its groups.
RECURSIVE BatchOrder(_)
BatchOrder(batches) ==
    IF batches = <<>> THEN <<>>
    ELSE Head(batches).counters \o BatchOrder(Tail(batches))

\* The worker fails: the queue keeps its items, _processing is reset and
\* no worker is left.
C37_Failure ==
    (\E w \in DOMAIN workers : workers[w].pc # "failed" /\ workers'[w].pc = "failed")
        => /\ queue' = queue
           /\ ~processing'
           /\ LiveWorkers' = {}

\* The items of the failed batch that were not invoked are in no later
\* invocation and do not come back to the queue.
C37_Discarded ==
    \A c \in Discarded :
        /\ InvocationsOf(c)' = {}
        /\ \A it \in queue' : it.counter # c

\* After a failure, the queued items stay queued with no worker running
\* until an Enqueue occurs, and that Enqueue starts a worker.
C37_Waiting ==
    (FailedWorkers # {} /\ LiveWorkers = {}) =>
        IF counter' = counter
        THEN queue' = queue /\ LiveWorkers' = {} /\ ~processing'
        ELSE /\ Cardinality(LiveWorkers') = 1
             /\ \A it \in queue : it \in queue'

\* The drain of a worker spawned after a failure takes every queued item;
\* its groups hold the items of each source in (priority,
\* arrival_sequence) order, the groups ordered by their first items.
C37_NextDrain ==
    \A w \in DOMAIN workers :
        (FailedWorkers # {} /\ workers[w].pc = "start" /\ workers'[w].pc = "invoke")
            => LET b == workers'[w].batches
               IN  /\ queue' = {}
                   /\ BatchCounters(w)' = {it.counter : it \in queue}
                   /\ \A g \in DOMAIN b : \A i, j \in DOMAIN b[g].counters :
                          i < j => ItemLess(enq[b[g].counters[i]], enq[b[g].counters[j]])
                   /\ \A g, h \in DOMAIN b :
                          g < h => ItemLess(enq[b[g].counters[1]], enq[b[h].counters[1]])

\* A worker spawned after a failure that comes to the end of its batch has
\* dispatched every item of it, in the order of the batch.
C37_Dispatched ==
    \A w \in DOMAIN workers :
        (FailedWorkers # {} /\ workers[w].pc = "stream" /\ workers'[w].pc = "post")
            => /\ \A c \in BatchCounters(w) : Cardinality(InvocationsOf(c)) = 1
               /\ \A i, j \in 1..Len(BatchOrder(workers[w].batches)) :
                      i < j => \A m \in InvocationsOf(BatchOrder(workers[w].batches)[i]),
                                  n \in InvocationsOf(BatchOrder(workers[w].batches)[j]) : m <= n

\* C37: when the worker fails while processing a drained batch, the items
\* of that batch not yet invoked are discarded; the items enqueued after
\* that drain stay in the queue, with no worker running, until the next
\* Enqueue, whose worker drains and dispatches them all in (priority,
\* arrival_sequence) order.
C37_SurvivingItems ==
    [][C37_Failure /\ C37_Discarded /\ C37_Waiting /\ C37_NextDrain /\ C37_Dispatched]_vars

\* The first worker failed in the first group of a batch of two groups, an
\* item enqueued during that run waited in the queue, and the worker of the
\* next Enqueue has dispatched it along with the new item.
C37_Witness ==
    /\ Len(workers) = 2
    /\ workers[1].pc = "failed"
    /\ \E c \in BatchCounters(1) : InvocationsOf(c) = {}
    /\ workers[2].pc = "post"
    /\ \E c \in BatchCounters(2) : c < counter /\ InvocationsOf(c) # {}
    /\ InvocationsOf(counter) # {}

(***************************************************************************)
(* Claims about clear_history during an invocation, checked under          *)
(* SpecTimers.                                                             *)
(***************************************************************************)
\* The running invocation started after the last clear_history, and
\* clear_history has run since it started.
ClearedInFlight ==
    /\ run.node # "idle"
    /\ clearedSince
    /\ ~llmLog[Len(llmLog)].cleared

\* The invocation returns to its caller.
InvocationCompletes == run.node = "end" /\ run'.node = "idle"

\* C38: if clear_history runs (session_clear or /clear_context) while an
\* invocation is in flight, then after the invocation completes the
\* history contains none of the messages that were in it when the
\* invocation started, which were in it before the clear.
C38_Step ==
    (ClearedInFlight /\ InvocationCompletes) =>
        \A i \in DOMAIN history', j \in DOMAIN HistoryAtStart :
            history'[i] # HistoryAtStart[j]

C38_ClearNotUndone == [][C38_Step]_vars

\* A clear that runs after the node that stores the history is kept: the
\* invocation completes with the history the clear left.
C38_ClearAfterStoreStep ==
    (ClearedInFlight /\ InvocationCompletes /\ history = <<>>) => history' = <<>>

C38_ClearAfterStore == [][C38_ClearAfterStoreStep]_vars

(***************************************************************************)
(* SpecBudget: a repeat or complex_repeat task with a run budget of 1 or 2 *)
(* in the store, over the lives of the process: register with its          *)
(* recovery, fires, reschedule calls, days that pass, and restarts.        *)
(***************************************************************************)
BudgetTasks ==
    {[StoredTask EXCEPT !.type = type, !.max_runs = Some(n),
                        !.original_prompt = IF type = "repeat" THEN None ELSE Some("p")] :
        type \in {"repeat", "complex_repeat"}, n \in 1..2}

\* The process starts over the store at the beginning of day 1.
InitBudget ==
    /\ InitAgent
    /\ InitDispatcher
    /\ apscheduler = TRUE
    /\ InitMedia
    /\ InitCallers
    /\ \E task \in BudgetTasks : tasks = <<task>>
    /\ taskJobs = {}
    /\ nextTaskId = 2
    /\ today = 1
    /\ triggers = <<>>
    /\ save = IdleSave
    /\ stream = IdleStream
    /\ boot = [now |-> TimeAt(1, 0), created |-> <<TimeAt(0, 0)>>, stored |-> tasks]

\* The process ends while nothing is in flight and is started again at the
\* end of the day: the memory of the old process (history, jobs, the
\* coroutines of the fires) is gone, tasks.json is what it was.
Reboot ==
    /\ callers.recovery = "done"
    /\ holders = {}
    /\ \A t \in DOMAIN triggers : triggers[t].pc \in {"done", "failed"}
    /\ boot.now < TimeAt(today, 3)
    /\ boot' = [boot EXCEPT !.now = TimeAt(today, 3)]
    /\ callers' = [callers EXCEPT !.recovery = "idle", !.loaded = <<>>, !.missed = {}]
    /\ taskJobs' = {}
    /\ triggers' = <<>>
    /\ history' = <<>>
    /\ current_token_usage' = 0
    /\ lastReturn' = <<>>
    /\ clearedSince' = FALSE
    /\ graph' = FALSE
    /\ UNCHANGED <<holders, run, dispVars, enq, llmLog, sent, mediaVars, tasks,
                   nextTaskId, today, save, stream, timeVars, command, perms>>

NextBudget ==
    \/ register(_recover_missed(tasks, boot.now))
    \/ RecoveryInvoke
    \/ RecoveryCollect
    \/ RecoveryReturn
    \/ \E j \in taskJobs : callers.recovery = "done" /\ _on_trigger(j)
    \/ \E t \in DOMAIN triggers : TriggerInvoke(t)
    \/ \E t \in DOMAIN triggers : TriggerCollect(t)
    \/ \E t \in DOMAIN triggers : TriggerReturn(t)
    \/ \E t \in DOMAIN triggers : TriggerReply(t)
    \/ \E t \in DOMAIN triggers : RescheduleInvoke(t)
    \/ \E t \in DOMAIN triggers, result \in RescheduleOutputs : _reschedule(t, result)
    \/ Tick
    \/ Reboot
    \/ GraphStepTasks

SpecBudget == InitBudget /\ [][NextBudget]_vars

\* max_runs of the task the store held at the start.
Budget == boot.stored[1].max_runs[1]

\* The invocations in which _on_trigger has handed the task's content to
\* the agent.
Deliveries == {i \in DOMAIN llmLog : llmLog[i].by = "trigger" /\ llmLog[i].reason = "user_message"}

\* Every state of the store has run_count < max_runs, and the content has
\* been delivered at most max_runs times.
C39_WithinBudget ==
    /\ \A i \in DOMAIN tasks : tasks[i].run_count < tasks[i].max_runs[1]
    /\ Cardinality(Deliveries) <= Budget

\* The fire that brings run_count to max_runs removes the task.
C39_LastFire ==
    (Len(triggers') = Len(triggers) + 1 /\ triggers'[Len(triggers')].found
        /\ triggers'[Len(triggers')].task.run_count >= Budget)
            => tasks' = <<>>

\* C39: for a task created with max_runs = N >= 1, every persisted state
\* of the store has its run_count < N; across fires, recoveries and
\* reschedules its content is delivered by _on_trigger at most N times,
\* and the N-th fire removes it from the store.
C39_RunBudget == [](C39_WithinBudget) /\ [][C39_LastFire]_vars

\* A complex_repeat task with a budget of 2 has fired once and been
\* rescheduled, the process was restarted on the next day and recovered
\* it, and its second fire has removed it and delivered its content.
C39_Witness ==
    /\ Budget = 2
    /\ boot.stored[1].type = "complex_repeat"
    /\ Cardinality(Deliveries) = 2
    /\ \E i \in DOMAIN llmLog : llmLog[i].reason = "complex_reschedule"
    /\ Cardinality({i \in DOMAIN llmLog : llmLog[i].by = "recovery"}) >= 2
    /\ boot.now = TimeAt(2, 3)
    /\ tasks = <<>>

(***************************************************************************)
(* SpecCancel: the fires of a complex_repeat task, with or without a run   *)
(* budget of 2, next to a second task, while cancel_task removes either    *)
(* task at any moment.                                                     *)
(***************************************************************************)
InitCancel ==
    /\ InitAgent
    /\ InitDispatcher
    /\ apscheduler = TRUE
    /\ InitMedia
    /\ \E max_runs \in {None, Some(2)} :
          tasks = <<[ComplexTask EXCEPT !.max_runs = max_runs], OtherTask>>
    /\ taskJobs = {[id |-> 1, trigger |-> CronTrigger], [id |-> 2, trigger |-> CronTrigger]}
    /\ nextTaskId = 3
    /\ today = 1
    /\ triggers = <<>>
    /\ InitCallers
    /\ InitUnits

NextCancel ==
    \/ \E j \in taskJobs : _on_trigger(j)
    \/ \E t \in DOMAIN triggers : TriggerInvoke(t)
    \/ \E t \in DOMAIN triggers : TriggerCollect(t)
    \/ \E t \in DOMAIN triggers : TriggerReturn(t)
    \/ \E t \in DOMAIN triggers : TriggerReply(t)
    \/ \E t \in DOMAIN triggers : RescheduleInvoke(t)
    \/ \E t \in DOMAIN triggers, result \in RescheduleOutputs : _reschedule(t, result)
    \/ \E task_id \in 1..2 : cancel_task(task_id, "")
    \/ GraphStepTasks

SpecCancel == InitCancel /\ [][NextCancel]_vars

\* The fire t is between the save of _on_trigger and the end of its
\* reschedule step.
InFlight(t) == triggers[t].found /\ triggers[t].pc \notin {"done", "failed"}

\* Fire t takes a step.
StepOf(t) == triggers'[t] # triggers[t]

\* C40: when a complex_repeat task has left the store (cancel_task or
\* expiry) while its fire's turn or its reschedule call is in flight, no
\* later step of that fire, the reschedule step included, writes it back:
\* the store after the step does not hold that task_id, no job is added
\* for it, and the store is the one found, with the changes made to the
\* other tasks in the meantime.
C40_Step ==
    \A t \in DOMAIN triggers :
        (/\ InFlight(t)
         /\ triggers[t].task.type = "complex_repeat"
         /\ FindBy(tasks, "task_id", triggers[t].task_id) = 0
         /\ StepOf(t))
            => /\ FindBy(tasks', "task_id", triggers[t].task_id) = 0
               /\ tasks' = tasks
               /\ \A j \in taskJobs' : j.id = triggers[t].task_id => j \in taskJobs

C40_CancelWins == [][C40_Step]_vars

\* The reschedule call of a fire has returned "reschedule" for a task that
\* cancel_task had removed during the call; the other task, which has
\* fired in the meantime, is in the store with its new run_count.
C40_Witness ==
    /\ \E t \in DOMAIN triggers :
          /\ triggers[t].task_id = 1
          /\ triggers[t].pc = "done"
          /\ triggers[t].result # None
          /\ triggers[t].result[1].action = "reschedule"
    /\ Len(tasks) = 1
    /\ tasks[1].task_id = 2
    /\ tasks[1].run_count = 1
    /\ \A j \in taskJobs : j.id # 1
====
